---- MODULE Spec2Model ----
(***************************************************************************)
(* CodeClaw: the permission bridge and the session / concurrency           *)
(* controller of ClaudeHandler (src/claude-handler.js), driven by the      *)
(* message router and the shutdown hook of index.js, the path checks and  *)
(* the listings of FileBrowser (file-browser.js), and the reconnection,    *)
(* the sent-message filter and the chunked send of WhatsAppClient          *)
(* (whatsapp.js).                                                          *)
(*                                                                         *)
(* One step of the model is one run-to-completion segment of the Node      *)
(* event loop: the code between two awaits, a timer callback, or a         *)
(* synchronous method call.                                                *)
(***************************************************************************)
EXTENDS Integers, Sequences, FiniteSets, TLC

\* ------------------------------------------------------------------ bounds
MaxTasks == 2       \* execute() calls made over a run
MaxPerms == 2       \* canUseTool() calls made over a run

\* ------------------------------------------------------- program constants
PERM_TIMEOUT_MS == 120000

\* ------------------------------------------------------------ input values
Chats == {"c1", "c2"}
Tools == {"Edit", "Bash"}
Tokens == {"s1", "s2"}
None == "none"
NoReply == <<None>>     \* no reply text was given (never a text of characters)

TaskIds == 1..MaxTasks
PermIds == 1..MaxPerms
\* Message ids handed out by the channel: the prompt of canUseTool call r gets
\* id r; 0 stands for every message that is not a permission prompt.
StanzaIds == 0..MaxPerms

\* Reply texts, as sequences of characters.
ReplyTexts ==
  { <<"y","e","s">>, <<"Y","E","S">>, <<" ","y"," ">>, <<"y">>,
    <<"a","p","p","r","o","v","e">>, <<"A","p","p","r","o","v","e","\n">>,
    <<"a","l","w","a","y","s">>, <<"A","l","w","a","y","s">>, <<"a">>, <<"\t","A">>,
    <<"n","o">>, <<"n","o","p","e">>, <<>>, <<"n">>, <<" "," ">>,
    <<"y","e","s","s">>, <<"y"," ","e","s">>, <<"a","l","l">> }

VARIABLES
  activeQueries,  \* chatId -> AbortController (named by the task that made it), 0: no entry
  acAborted,      \* the AbortControllers whose signal is aborted
  pendingPerms,   \* msgId -> [resolve, timer, toolName, suggestions]
  timers,         \* the live setTimeout timers: id -> [delay, elapsed, msgId, resolve]
  alwaysAllowed,  \* tool names auto-approved
  sessions,       \* chatId -> sessionId, None: no entry
  tasks,          \* the execute() calls: their position and locals
  perms,          \* the _handlePermission() calls: their position and promise;
                  \* history: registered, the entry was in pendingPerms at resolve
  trustCache,     \* history: per chat, the kinds trusted by 'always' since its last /new
  resetSince,     \* history: per chat, /new was issued since its last engine start
  halted,         \* process.exit() was called
  ALLOWED_USERS,  \* index.js: the chat ids of the environment's ALLOWED_USERS
  lastMessage,    \* history: the last handleMessage call and the reply it sent
  browser,        \* FileBrowser: the chats with a listing; history: its last call
  promptText,     \* history: the last _handlePermission call that built a prompt, and its text
  whatsapp,       \* WhatsAppClient: its fields, its socket and its reconnect timer
  outbox,         \* the messages the bot sent: the send call and the upsert event of each
  chunker         \* a call of sendFn or sendChunked: its text, its loop and the chunks sent

vars == <<activeQueries, acAborted, pendingPerms, timers, alwaysAllowed, sessions,
          tasks, perms, trustCache, resetSince, halted, ALLOWED_USERS, lastMessage,
          browser, promptText, whatsapp, outbox, chunker>>

\* The state of index.js and of its collaborators and the histories of their
\* calls, which no method of ClaudeHandler touches.
index == <<ALLOWED_USERS, lastMessage, browser, promptText, whatsapp, outbox, chunker>>

\* --------------------------------------------------------------- helpers
UpperChars == <<"A","E","L","N","O","P","R","S","V","W","Y">>
LowerChars == <<"a","e","l","n","o","p","r","s","v","w","y">>
WhiteSpace == {" ", "\t", "\n"}

toLowerChar(ch) ==
  IF \E i \in 1..Len(UpperChars) : UpperChars[i] = ch
    THEN LowerChars[CHOOSE i \in 1..Len(UpperChars) : UpperChars[i] = ch]
    ELSE ch

\* String.prototype.toLowerCase
toLowerCase(s) == [i \in 1..Len(s) |-> toLowerChar(s[i])]

RECURSIVE trimStart(_)
trimStart(s) ==
  IF s # <<>> /\ Head(s) \in WhiteSpace THEN trimStart(Tail(s)) ELSE s

RECURSIVE trimEnd(_)
trimEnd(s) ==
  IF s # <<>> /\ s[Len(s)] \in WhiteSpace THEN trimEnd(SubSeq(s, 1, Len(s) - 1)) ELSE s

\* String.prototype.trim
trim(s) == trimEnd(trimStart(s))

\* Map.delete on a function with a dynamic domain
MapDelete(m, k) == [x \in DOMAIN m \ {k} |-> m[x]]
\* Map.set
MapSet(m, k, v) == [x \in DOMAIN m \cup {k} |-> IF x = k THEN v ELSE m[x]]
EmptyMap == [x \in {} |-> 0]

\* A promise's resolve function called with value d: the call is recorded; the
\* promise settles with the first value it is given.
\* pending is pendingPerms as it is when the function is called.
Resolve(pending, ps, r, d) ==
  [ps EXCEPT ![r].resolves = Append(@, d), ![r].st = "returned",
             ![r].registered = \E h \in DOMAIN pending : pending[h].resolve = r]

Decision(behavior, message, updated, by) ==
  [behavior |-> behavior, message |-> message, updatedPermissions |-> updated,
   by |-> by]

\* The next unused slot of the call tables.
FreshTask == CHOOSE t \in TaskIds : tasks[t].pc = "unused" /\ \A u \in 1..(t - 1) : tasks[u].pc # "unused"
FreshPerm == CHOOSE r \in PermIds : perms[r].st = "unused" /\ \A u \in 1..(r - 1) : perms[u].st # "unused"

\* quoted: the message id quoted by the message that made the call, 0: none
NoTask == [pc |-> "unused", chatId |-> None, started |-> FALSE, resume |-> None,
           sessionId |-> None, gotResult |-> FALSE, resultText |-> "",
           isError |-> FALSE, outcome |-> None, sawActive |-> FALSE, quoted |-> 0]
NoPerm == [st |-> "unused", task |-> 0, toolName |-> None, suggestions |-> FALSE,
           reply |-> NoReply, resolves |-> <<>>, registered |-> FALSE]

\* What handleMessage hands to sendFn itself: a text; the status text carries
\* the two counts. NoSend: nothing.
Reply(text) == [text |-> text, activeQueries |-> 0, pendingPermissions |-> 0]
NoSend == Reply(None)
NoMessage == [jid |-> None, text |-> <<>>, quoted |-> 0, fromMe |-> FALSE,
              reply |-> NoSend]

\* The input of a tool call: the fields the prompt reads (None: absent or
\* empty) and the length of its JSON text.
NoInput == [file_path |-> None, command |-> None, pattern |-> None, url |-> None,
            query |-> None, json |-> 2]
NoPrompt == [toolName |-> None, input |-> NoInput, decisionReason |-> None, text |-> <<>>]

\* No path: the file system was not asked.
NoPath == <<>>
\* A call of FileBrowser.browse or viewFile: the resolved root, the requested
\* path, the path handed to readdir or readFile and the text returned.
NoCall == [op |-> None, root |-> NoPath, request |-> NoPath, fs |-> NoPath, text |-> None]

\* The messages the bot sends over a run.
MaxSent == 2
SentIds == 1..MaxSent
\* new WhatsAppClient(): no socket, no reconnect attempt, no sent id. sock names
\* the method whose handlers the socket carries, timer is the delay of the
\* pending setTimeout (0: none) and elapsed the time it has waited. History:
\* closes, the closes since the last open, and delay, the last delay scheduled.
NewWhatsAppClient ==
  [_reconnectAttempts |-> 0, _sentIds |-> {}, sock |-> None, connection |-> None,
   timer |-> 0, elapsed |-> 0, closes |-> 0, delay |-> 0]
\* No message was sent: no send call was made and no upsert event has arrived.
NoOutbox == [id \in SentIds |-> [send |-> None, upsert |-> None, jid |-> None]]

\* No call of sendFn or sendChunked was made. ids holds the chunks sent, each
\* with the id its send returned; returned is the id sendFn returned (0: none).
NoChunker == [st |-> "idle", via |-> None, text |-> <<>>, maxLen |-> 0,
              remaining |-> <<>>, ids |-> <<>>, returned |-> 0]

\* A conversation without a browse session: no root and no listing.
NoListing == [rootDir |-> NoPath, items |-> <<>>]
\* new FileBrowser(): no session. sessions holds the chats that have one and
\* listing, for each of them, its root and the entries of its listing.
NewFileBrowser ==
  [sessions |-> {}, listing |-> [c \in Chats |-> NoListing], last |-> NoCall]

\* The positions of execute() at which the call holds its conversation's slot.
NonTerminal == {"working", "streaming", "sendResult", "sendStopped", "sendError"}

\* ------------------------------------------------------------------ Init
InitClaude ==
  /\ activeQueries = [c \in Chats |-> 0]
  /\ acAborted = {}
  /\ pendingPerms = EmptyMap
  /\ timers = EmptyMap
  /\ alwaysAllowed = {}
  /\ sessions = [c \in Chats |-> None]
  /\ tasks = [t \in TaskIds |-> NoTask]
  /\ perms = [r \in PermIds |-> NoPerm]
  /\ trustCache = [c \in Chats |-> {}]
  /\ resetSince = [c \in Chats |-> FALSE]
  /\ halted = FALSE

\* whatsapp.userJid: the account's own chat, "Message Yourself"
userJid == "c1"

\* ALLOWED_USERS is not set in the environment: every sender is authorized.
Init ==
  /\ InitClaude
  /\ ALLOWED_USERS = {}
  /\ lastMessage = NoMessage
  /\ browser = NewFileBrowser
  /\ promptText = NoPrompt
  /\ whatsapp = NewWhatsAppClient
  /\ outbox = NoOutbox
  /\ chunker = NoChunker

\* ALLOWED_USERS names the owner's own number and no other.
InitAllowed ==
  /\ InitClaude
  /\ ALLOWED_USERS = {userJid}
  /\ lastMessage = NoMessage
  /\ browser = NewFileBrowser
  /\ promptText = NoPrompt
  /\ whatsapp = NewWhatsAppClient
  /\ outbox = NoOutbox
  /\ chunker = NoChunker

\* ------------------------------------------------------- ClaudeHandler.execute
\* (mutant) the catch block reports every exception as an error
CatchIgnoresAbort(t) == "sendError"

\* catch (err): "Stopped." when the controller is aborted, the error text otherwise
Catch(t) == IF t \in acAborted THEN "sendStopped" ELSE "sendError"

\* (mutant) the finally block empties activeQueries
FinallyClearsAll(chatId) == [c \in Chats |-> 0]

\* finally: this.activeQueries.delete(chatId)
Finally(chatId) == [activeQueries EXCEPT ![chatId] = 0]

\* execute(chatId, ...) up to its first await, called for a message that
\* quotes message id quoted
ExecuteCall(chatId, quoted) ==
  /\ ~halted
  /\ \E t \in TaskIds : tasks[t].pc = "unused"
  /\ LET t == FreshTask
         busy == \E u \in TaskIds : tasks[u].chatId = chatId /\ tasks[u].pc \in NonTerminal
     IN  IF activeQueries[chatId] # 0
           THEN /\ tasks' = [tasks EXCEPT ![t] = [NoTask EXCEPT !.pc = "rejecting",
                                 !.chatId = chatId, !.sawActive = busy, !.quoted = quoted]]
                /\ UNCHANGED activeQueries
           ELSE /\ activeQueries' = [activeQueries EXCEPT ![chatId] = t]
                /\ tasks' = [tasks EXCEPT ![t] = [NoTask EXCEPT !.pc = "working",
                                 !.chatId = chatId, !.sawActive = busy, !.quoted = quoted]]
  /\ UNCHANGED <<acAborted, pendingPerms, timers, alwaysAllowed, sessions, perms,
                 trustCache, resetSince, halted>>

\* (mutant) the new controller is registered before the slot is tested
ExecuteRegistersFirst(chatId) ==
  /\ ~halted
  /\ \E t \in TaskIds : tasks[t].pc = "unused"
  /\ LET t == FreshTask
         busy == \E u \in TaskIds : tasks[u].chatId = chatId /\ tasks[u].pc \in NonTerminal
     IN  /\ activeQueries' = [activeQueries EXCEPT ![chatId] = t]
         /\ tasks' = [tasks EXCEPT ![t] = [NoTask EXCEPT
                         !.pc = IF activeQueries[chatId] # 0 THEN "rejecting" ELSE "working",
                         !.chatId = chatId, !.sawActive = busy]]
  /\ UNCHANGED <<acAborted, pendingPerms, timers, alwaysAllowed, sessions, perms,
                 trustCache, resetSince, halted>>

\* (mutant) one slot for all conversations
ExecuteGlobalSlot(chatId) ==
  /\ ~halted
  /\ \E t \in TaskIds : tasks[t].pc = "unused"
  /\ LET t == FreshTask
         busy == \E u \in TaskIds : tasks[u].chatId = chatId /\ tasks[u].pc \in NonTerminal
     IN  IF \E c \in Chats : activeQueries[c] # 0
           THEN /\ tasks' = [tasks EXCEPT ![t] = [NoTask EXCEPT !.pc = "rejecting",
                                                   !.chatId = chatId, !.sawActive = busy]]
                /\ UNCHANGED activeQueries
           ELSE /\ activeQueries' = [activeQueries EXCEPT ![chatId] = t]
                /\ tasks' = [tasks EXCEPT ![t] = [NoTask EXCEPT !.pc = "working",
                                                   !.chatId = chatId, !.sawActive = busy]]
  /\ UNCHANGED <<acAborted, pendingPerms, timers, alwaysAllowed, sessions, perms,
                 trustCache, resetSince, halted>>

\* execute(chatId, ...) up to its first await, for a message that quotes none
Execute(chatId) == ExecuteCall(chatId, 0)

\* the "A task is already running" send settles; execute returns (or rejects)
ExecuteRejectSent(t, ok) ==
  /\ ~halted
  /\ tasks[t].pc = "rejecting"
  /\ tasks' = [tasks EXCEPT ![t].pc = "rejected",
                            ![t].outcome = IF ok THEN "alreadyRunning" ELSE "sendFailed"]
  /\ UNCHANGED <<activeQueries, acAborted, pendingPerms, timers, alwaysAllowed, sessions,
                 perms, trustCache, resetSince, halted>>

\* the "Working on it..." send settles: the engine is started with the stored
\* session as resume value, or the failure goes to the catch block
ExecuteWorkingSent(t, ok) ==
  /\ ~halted
  /\ tasks[t].pc = "working"
  /\ tasks' = IF ok
                THEN [tasks EXCEPT ![t].pc = "streaming", ![t].started = TRUE,
                                   ![t].resume = sessions[tasks[t].chatId]]
                ELSE [tasks EXCEPT ![t].pc = Catch(t)]
  /\ resetSince' = IF ok THEN [resetSince EXCEPT ![tasks[t].chatId] = FALSE] ELSE resetSince
  /\ UNCHANGED <<activeQueries, acAborted, pendingPerms, timers, alwaysAllowed, sessions,
                 perms, trustCache, halted>>

\* for await (const msg of iter): one message that is not the result
EngineMessage(t, sid) ==
  /\ ~halted
  /\ tasks[t].pc = "streaming"
  /\ ~tasks[t].gotResult
  /\ tasks' = [tasks EXCEPT ![t].sessionId = IF sid # None THEN sid ELSE @]
  /\ UNCHANGED <<activeQueries, acAborted, pendingPerms, timers, alwaysAllowed, sessions,
                 perms, trustCache, resetSince, halted>>

\* for await: the result message; subtype "success" with text or without, or a
\* failure subtype
EngineResult(t, sid, subtype) ==
  /\ ~halted
  /\ tasks[t].pc = "streaming"
  /\ ~tasks[t].gotResult
  /\ tasks' = [tasks EXCEPT
       ![t].gotResult = TRUE,
       ![t].sessionId = IF sid # None THEN sid ELSE @,
       ![t].resultText = CASE subtype = "success" -> "text"
                           [] subtype = "successEmpty" -> ""
                           [] OTHER -> "Error",
       ![t].isError = (subtype \notin {"success", "successEmpty"})]
  /\ UNCHANGED <<activeQueries, acAborted, pendingPerms, timers, alwaysAllowed, sessions,
                 perms, trustCache, resetSince, halted>>

\* (mutant) one session for the whole handler instead of one per chatId
EngineEndOneSession(t) ==
  /\ ~halted
  /\ tasks[t].pc = "streaming"
  /\ sessions' = IF tasks[t].sessionId # None
                   THEN [c \in Chats |-> tasks[t].sessionId]
                   ELSE sessions
  /\ IF tasks[t].resultText # ""
       THEN /\ tasks' = [tasks EXCEPT ![t].pc = "sendResult"]
            /\ UNCHANGED activeQueries
       ELSE /\ tasks' = [tasks EXCEPT ![t].pc = "done", ![t].outcome = "silent"]
            /\ activeQueries' = Finally(tasks[t].chatId)
  /\ UNCHANGED <<acAborted, pendingPerms, timers, alwaysAllowed, perms, trustCache, resetSince,
                 halted>>

\* the event stream ends: the session id is stored, the result is sent, or,
\* with no result text, the finally block releases the slot
EngineEnd(t) ==
  /\ ~halted
  /\ tasks[t].pc = "streaming"
  /\ sessions' = IF tasks[t].sessionId # None
                   THEN [sessions EXCEPT ![tasks[t].chatId] = tasks[t].sessionId]
                   ELSE sessions
  /\ IF tasks[t].resultText # ""
       THEN /\ tasks' = [tasks EXCEPT ![t].pc = "sendResult"]
            /\ UNCHANGED activeQueries
       ELSE /\ tasks' = [tasks EXCEPT ![t].pc = "done", ![t].outcome = "silent"]
            /\ activeQueries' = Finally(tasks[t].chatId)
  /\ UNCHANGED <<acAborted, pendingPerms, timers, alwaysAllowed, perms, trustCache, resetSince,
                 halted>>

\* (mutant) the catch block stores the session id the stream reported
EngineThrowStores(t) ==
  /\ ~halted
  /\ tasks[t].pc = "streaming"
  /\ tasks' = [tasks EXCEPT ![t].pc = Catch(t)]
  /\ sessions' = IF tasks[t].sessionId # None
                   THEN [sessions EXCEPT ![tasks[t].chatId] = tasks[t].sessionId]
                   ELSE sessions
  /\ UNCHANGED <<activeQueries, acAborted, pendingPerms, timers, alwaysAllowed,
                 perms, trustCache, resetSince, halted>>

\* the event stream throws (an AbortError after an abort, any other error at
\* any time): the catch block sends "Stopped." or the error
EngineThrow(t) ==
  /\ ~halted
  /\ tasks[t].pc = "streaming"
  /\ tasks' = [tasks EXCEPT ![t].pc = Catch(t)]
  /\ UNCHANGED <<activeQueries, acAborted, pendingPerms, timers, alwaysAllowed, sessions,
                 perms, trustCache, resetSince, halted>>

\* the send of the result settles: finally, or catch when it failed
ExecuteResultSent(t, ok) ==
  /\ ~halted
  /\ tasks[t].pc = "sendResult"
  /\ IF ok
       THEN /\ tasks' = [tasks EXCEPT ![t].pc = "done",
                           ![t].outcome = IF tasks[t].isError THEN "errorResult" ELSE "result"]
            /\ activeQueries' = Finally(tasks[t].chatId)
       ELSE /\ tasks' = [tasks EXCEPT ![t].pc = Catch(t)]
            /\ UNCHANGED activeQueries
  /\ UNCHANGED <<acAborted, pendingPerms, timers, alwaysAllowed, sessions, perms,
                 trustCache, resetSince, halted>>

\* (mutant) the slot is released after the catch block's send instead of in a
\* finally block: a failed send skips the release
ExecuteCatchSentLeak(t, ok) ==
  /\ ~halted
  /\ tasks[t].pc \in {"sendStopped", "sendError"}
  /\ tasks' = [tasks EXCEPT ![t].pc = "done",
                 ![t].outcome = IF ~ok THEN "sendFailed"
                                ELSE IF tasks[t].pc = "sendStopped" THEN "stopped" ELSE "error"]
  /\ activeQueries' = IF ok THEN Finally(tasks[t].chatId) ELSE activeQueries
  /\ UNCHANGED <<acAborted, pendingPerms, timers, alwaysAllowed, sessions, perms,
                 trustCache, resetSince, halted>>

\* the send made by the catch block settles (a failure leaves execute as a
\* rejection): finally
ExecuteCatchSent(t, ok) ==
  /\ ~halted
  /\ tasks[t].pc \in {"sendStopped", "sendError"}
  /\ tasks' = [tasks EXCEPT ![t].pc = "done",
                 ![t].outcome = IF ~ok THEN "sendFailed"
                                ELSE IF tasks[t].pc = "sendStopped" THEN "stopped" ELSE "error"]
  /\ activeQueries' = Finally(tasks[t].chatId)
  /\ UNCHANGED <<acAborted, pendingPerms, timers, alwaysAllowed, sessions, perms,
                 trustCache, resetSince, halted>>

\* --------------------------------------------- ClaudeHandler._handlePermission
\* canUseTool -> _handlePermission up to its await: allow at once for an
\* always-allowed tool, else the prompt is handed to sendFn
HandlePermission(t, toolName, suggestions) ==
  /\ ~halted
  /\ tasks[t].pc = "streaming"
  /\ \E r \in PermIds : perms[r].st = "unused"
  /\ LET r == FreshPerm
         call == [NoPerm EXCEPT !.task = t, !.toolName = toolName,
                                !.suggestions = suggestions]
     IN  perms' = IF toolName \in alwaysAllowed
                    THEN [perms EXCEPT ![r] = [call EXCEPT !.st = "returned",
                            !.resolves = <<Decision("allow", "", FALSE, "trust")>>]]
                    ELSE [perms EXCEPT ![r] = [call EXCEPT !.st = "sending"]]
  /\ UNCHANGED <<activeQueries, acAborted, pendingPerms, timers, alwaysAllowed, sessions,
                 tasks, trustCache, resetSince, halted>>

\* (mutant) the entry and its timer are registered whether or not the prompt
\* was sent
PromptSentRegistersAlways(r, ok) ==
  /\ ~halted
  /\ perms[r].st = "sending"
  /\ timers' = MapSet(timers, r, [delay |-> PERM_TIMEOUT_MS, elapsed |-> 0,
                                  msgId |-> r, resolve |-> r])
  /\ pendingPerms' = MapSet(pendingPerms, r,
       [resolve |-> r, timer |-> r, toolName |-> perms[r].toolName,
        suggestions |-> perms[r].suggestions])
  /\ perms' = [perms EXCEPT ![r].st = IF ok THEN "waiting" ELSE "threw"]
  /\ UNCHANGED <<activeQueries, acAborted, alwaysAllowed, sessions, tasks, trustCache,
                 resetSince, halted>>

\* (mutant) the entry is registered without a timer
PromptSentNoTimer(r, ok) ==
  /\ ~halted
  /\ perms[r].st = "sending"
  /\ IF ok
       THEN /\ pendingPerms' = MapSet(pendingPerms, r,
                 [resolve |-> r, timer |-> r, toolName |-> perms[r].toolName,
                  suggestions |-> perms[r].suggestions])
            /\ perms' = [perms EXCEPT ![r].st = "waiting"]
            /\ UNCHANGED timers
       ELSE /\ perms' = [perms EXCEPT ![r].st = "threw"]
            /\ UNCHANGED <<timers, pendingPerms>>
  /\ UNCHANGED <<activeQueries, acAborted, alwaysAllowed, sessions, tasks, trustCache, resetSince,
                 halted>>

\* (mutant) the timer is started with the delay in seconds taken as ms
PromptSentShortDelay(r, ok) ==
  /\ ~halted
  /\ perms[r].st = "sending"
  /\ IF ok
       THEN /\ timers' = MapSet(timers, r, [delay |-> PERM_TIMEOUT_MS \div 1000,
                                            elapsed |-> 0, msgId |-> r, resolve |-> r])
            /\ pendingPerms' = MapSet(pendingPerms, r,
                 [resolve |-> r, timer |-> r, toolName |-> perms[r].toolName,
                  suggestions |-> perms[r].suggestions])
            /\ perms' = [perms EXCEPT ![r].st = "waiting"]
       ELSE /\ perms' = [perms EXCEPT ![r].st = "threw"]
            /\ UNCHANGED <<timers, pendingPerms>>
  /\ UNCHANGED <<activeQueries, acAborted, alwaysAllowed, sessions, tasks, trustCache, resetSince,
                 halted>>

\* the prompt's send settles: with its message id the timer is started and the
\* entry registered; a failed send rejects the call
PromptSent(r, ok) ==
  /\ ~halted
  /\ perms[r].st = "sending"
  /\ IF ok
       THEN /\ timers' = MapSet(timers, r, [delay |-> PERM_TIMEOUT_MS, elapsed |-> 0,
                                            msgId |-> r, resolve |-> r])
            /\ pendingPerms' = MapSet(pendingPerms, r,
                 [resolve |-> r, timer |-> r, toolName |-> perms[r].toolName,
                  suggestions |-> perms[r].suggestions])
            /\ perms' = [perms EXCEPT ![r].st = "waiting"]
       ELSE /\ perms' = [perms EXCEPT ![r].st = "threw"]
            /\ UNCHANGED <<timers, pendingPerms>>
  /\ UNCHANGED <<activeQueries, acAborted, alwaysAllowed, sessions, tasks, trustCache, resetSince,
                 halted>>

\* (mutant) the timer callback resolves before it deletes the entry
TimerFireResolvesFirst(id) ==
  /\ ~halted
  /\ id \in DOMAIN timers
  /\ timers[id].elapsed >= timers[id].delay
  /\ pendingPerms' = MapDelete(pendingPerms, timers[id].msgId)
  /\ perms' = Resolve(pendingPerms, perms, timers[id].resolve,
                      Decision("deny", "Permission timed out", FALSE, "timer"))
  /\ timers' = MapDelete(timers, id)
  /\ UNCHANGED <<activeQueries, acAborted, alwaysAllowed, sessions, tasks, trustCache, resetSince,
                 halted>>

\* the setTimeout callback
TimerFire(id) ==
  /\ ~halted
  /\ id \in DOMAIN timers
  /\ timers[id].elapsed >= timers[id].delay
  /\ pendingPerms' = MapDelete(pendingPerms, timers[id].msgId)
  /\ perms' = Resolve(MapDelete(pendingPerms, timers[id].msgId), perms, timers[id].resolve,
                      Decision("deny", "Permission timed out", FALSE, "timer"))
  /\ timers' = MapDelete(timers, id)
  /\ UNCHANGED <<activeQueries, acAborted, alwaysAllowed, sessions, tasks, trustCache, resetSince,
                 halted>>

\* --------------------------------------------- ClaudeHandler.resolvePermission
\* (mutant) the reply text is lower-cased but not trimmed
ReplyClassNoTrim(decision) ==
  LET d == toLowerCase(decision)
  IN  IF d = <<"y","e","s">> \/ d = <<"y">> \/ d = <<"a","p","p","r","o","v","e">>
        THEN "yes"
        ELSE IF d = <<"a","l","w","a","y","s">> \/ d = <<"a">> THEN "always" ELSE "other"

\* the classification of the reply text
ReplyClass(decision) ==
  LET d == trim(toLowerCase(decision))
  IN  IF d = <<"y","e","s">> \/ d = <<"y">> \/ d = <<"a","p","p","r","o","v","e">>
        THEN "yes"
        ELSE IF d = <<"a","l","w","a","y","s">> \/ d = <<"a">> THEN "always" ELSE "other"

\* (mutant) resolvePermission claims every quoted message
ResolvePermissionResultTrue(stanzaId) == TRUE

\* the value resolvePermission returns
ResolvePermissionResult(stanzaId) == stanzaId \in DOMAIN pendingPerms

\* (mutant) an 'always' reply trusts the tools of all the pending approvals
ResolvePermissionTrustsPending(stanzaId, decision) ==
  /\ ~halted
  /\ IF stanzaId \notin DOMAIN pendingPerms
       THEN UNCHANGED <<timers, pendingPerms, alwaysAllowed, perms, trustCache>>
       ELSE LET perm == pendingPerms[stanzaId]
                cls == ReplyClass(decision)
                chat == tasks[perms[perm.resolve].task].chatId
            IN  /\ timers' = MapDelete(timers, perm.timer)
                /\ pendingPerms' = MapDelete(pendingPerms, stanzaId)
                /\ alwaysAllowed' =
                     IF cls = "always"
                       THEN alwaysAllowed \cup {pendingPerms[h].toolName : h \in DOMAIN pendingPerms}
                       ELSE alwaysAllowed
                /\ trustCache' = IF cls = "always"
                                   THEN [trustCache EXCEPT ![chat] = @ \cup {perm.toolName}]
                                   ELSE trustCache
                /\ perms' = Resolve(MapDelete(pendingPerms, stanzaId),
                     [perms EXCEPT ![perm.resolve].reply = decision],
                     perm.resolve,
                     CASE cls = "yes" -> Decision("allow", "", FALSE, "reply")
                       [] cls = "always" -> Decision("allow", "", perm.suggestions, "reply")
                       [] OTHER -> Decision("deny", "User denied", FALSE, "reply"))
  /\ UNCHANGED <<activeQueries, acAborted, sessions, tasks, resetSince, halted>>

\* (mutant) the reply leaves the entry in pendingPerms
ResolvePermissionKeepsEntry(stanzaId, decision) ==
  /\ ~halted
  /\ IF stanzaId \notin DOMAIN pendingPerms
       THEN UNCHANGED <<timers, pendingPerms, alwaysAllowed, perms, trustCache>>
       ELSE LET perm == pendingPerms[stanzaId]
                cls == ReplyClass(decision)
                chat == tasks[perms[perm.resolve].task].chatId
            IN  /\ timers' = MapDelete(timers, perm.timer)
                /\ pendingPerms' = pendingPerms
                /\ alwaysAllowed' = IF cls = "always"
                                      THEN alwaysAllowed \cup {perm.toolName}
                                      ELSE alwaysAllowed
                /\ trustCache' = IF cls = "always"
                                   THEN [trustCache EXCEPT ![chat] = @ \cup {perm.toolName}]
                                   ELSE trustCache
                /\ perms' = Resolve(pendingPerms,
                     [perms EXCEPT ![perm.resolve].reply = decision],
                     perm.resolve,
                     CASE cls = "yes" -> Decision("allow", "", FALSE, "reply")
                       [] cls = "always" -> Decision("allow", "", perm.suggestions, "reply")
                       [] OTHER -> Decision("deny", "User denied", FALSE, "reply"))
  /\ UNCHANGED <<activeQueries, acAborted, sessions, tasks, resetSince, halted>>

\* (mutant) the reply does not cancel the timer
ResolvePermissionKeepsTimer(stanzaId, decision) ==
  /\ ~halted
  /\ IF stanzaId \notin DOMAIN pendingPerms
       THEN UNCHANGED <<timers, pendingPerms, alwaysAllowed, perms, trustCache, resetSince>>
       ELSE LET perm == pendingPerms[stanzaId]
                cls == ReplyClass(decision)
                chat == tasks[perms[perm.resolve].task].chatId
            IN  /\ timers' = timers
                /\ pendingPerms' = MapDelete(pendingPerms, stanzaId)
                /\ alwaysAllowed' = IF cls = "always"
                                      THEN alwaysAllowed \cup {perm.toolName}
                                      ELSE alwaysAllowed
                /\ trustCache' = IF cls = "always"
                                   THEN [trustCache EXCEPT ![chat] = @ \cup {perm.toolName}]
                                   ELSE trustCache
                /\ perms' = Resolve(MapDelete(pendingPerms, stanzaId),
                     [perms EXCEPT ![perm.resolve].reply = decision],
                     perm.resolve,
                     CASE cls = "yes" -> Decision("allow", "", FALSE, "reply")
                       [] cls = "always" -> Decision("allow", "", perm.suggestions, "reply")
                       [] OTHER -> Decision("deny", "User denied", FALSE, "reply"))
  /\ UNCHANGED <<activeQueries, acAborted, sessions, tasks, resetSince, halted>>

\* (mutant) the tool is trusted only for the reply text "always" as it was typed
ResolvePermissionTrustsExact(stanzaId, decision) ==
  /\ ~halted
  /\ IF stanzaId \notin DOMAIN pendingPerms
       THEN UNCHANGED <<timers, pendingPerms, alwaysAllowed, perms, trustCache, resetSince>>
       ELSE LET perm == pendingPerms[stanzaId]
                cls == ReplyClass(decision)
                chat == tasks[perms[perm.resolve].task].chatId
            IN  /\ timers' = MapDelete(timers, perm.timer)
                /\ pendingPerms' = MapDelete(pendingPerms, stanzaId)
                /\ alwaysAllowed' = IF decision = <<"a","l","w","a","y","s">>
                                      THEN alwaysAllowed \cup {perm.toolName}
                                      ELSE alwaysAllowed
                /\ trustCache' = IF decision = <<"a","l","w","a","y","s">>
                                   THEN [trustCache EXCEPT ![chat] = @ \cup {perm.toolName}]
                                   ELSE trustCache
                /\ perms' = Resolve(MapDelete(pendingPerms, stanzaId),
                     [perms EXCEPT ![perm.resolve].reply = decision],
                     perm.resolve,
                     CASE cls = "yes" -> Decision("allow", "", FALSE, "reply")
                       [] cls = "always" -> Decision("allow", "", perm.suggestions, "reply")
                       [] OTHER -> Decision("deny", "User denied", FALSE, "reply"))
  /\ UNCHANGED <<activeQueries, acAborted, sessions, tasks, resetSince, halted>>

\* (mutant) an 'always' reply allows without recording the tool
ResolvePermissionNoTrust(stanzaId, decision) ==
  /\ ~halted
  /\ IF stanzaId \notin DOMAIN pendingPerms
       THEN UNCHANGED <<timers, pendingPerms, alwaysAllowed, perms, trustCache, resetSince>>
       ELSE LET perm == pendingPerms[stanzaId]
                cls == ReplyClass(decision)
                chat == tasks[perms[perm.resolve].task].chatId
            IN  /\ timers' = MapDelete(timers, perm.timer)
                /\ pendingPerms' = MapDelete(pendingPerms, stanzaId)
                /\ alwaysAllowed' = alwaysAllowed
                /\ trustCache' = IF cls = "always"
                                   THEN [trustCache EXCEPT ![chat] = @ \cup {perm.toolName}]
                                   ELSE trustCache
                /\ perms' = Resolve(MapDelete(pendingPerms, stanzaId),
                     [perms EXCEPT ![perm.resolve].reply = decision],
                     perm.resolve,
                     CASE cls = "yes" -> Decision("allow", "", FALSE, "reply")
                       [] cls = "always" -> Decision("allow", "", perm.suggestions, "reply")
                       [] OTHER -> Decision("deny", "User denied", FALSE, "reply"))
  /\ UNCHANGED <<activeQueries, acAborted, sessions, tasks, resetSince, halted>>

ResolvePermission(stanzaId, decision) ==
  /\ ~halted
  /\ IF stanzaId \notin DOMAIN pendingPerms
       THEN UNCHANGED <<timers, pendingPerms, alwaysAllowed, perms, trustCache, resetSince>>
       ELSE LET perm == pendingPerms[stanzaId]
                cls == ReplyClass(decision)
                chat == tasks[perms[perm.resolve].task].chatId
            IN  /\ timers' = MapDelete(timers, perm.timer)
                /\ pendingPerms' = MapDelete(pendingPerms, stanzaId)
                /\ alwaysAllowed' = IF cls = "always"
                                      THEN alwaysAllowed \cup {perm.toolName}
                                      ELSE alwaysAllowed
                /\ trustCache' = IF cls = "always"
                                   THEN [trustCache EXCEPT ![chat] = @ \cup {perm.toolName}]
                                   ELSE trustCache
                /\ perms' = Resolve(MapDelete(pendingPerms, stanzaId),
                     [perms EXCEPT ![perm.resolve].reply = decision],
                     perm.resolve,
                     CASE cls = "yes" -> Decision("allow", "", FALSE, "reply")
                       [] cls = "always" -> Decision("allow", "", perm.suggestions, "reply")
                       [] OTHER -> Decision("deny", "User denied", FALSE, "reply"))
  /\ UNCHANGED <<activeQueries, acAborted, sessions, tasks, resetSince, halted>>

\* ------------------------------------ clearSession, abort, abortAll, shutdown
\* (mutant) /new also forgets the tools trusted
ClearSessionForgetsTrust(chatId) ==
  /\ ~halted
  /\ sessions' = [sessions EXCEPT ![chatId] = None]
  /\ trustCache' = [trustCache EXCEPT ![chatId] = {}]
  /\ resetSince' = [resetSince EXCEPT ![chatId] = TRUE]
  /\ alwaysAllowed' = {}
  /\ UNCHANGED <<activeQueries, acAborted, pendingPerms, timers, tasks, perms, halted>>

\* the /new command: claude.clearSession(jid)
ClearSession(chatId) ==
  /\ ~halted
  /\ sessions' = [sessions EXCEPT ![chatId] = None]
  /\ trustCache' = [trustCache EXCEPT ![chatId] = {}]
  /\ resetSince' = [resetSince EXCEPT ![chatId] = TRUE]
  /\ UNCHANGED <<activeQueries, acAborted, pendingPerms, timers, alwaysAllowed, tasks,
                 perms, halted>>

\* (mutant) abort reports a task whether or not there is one
AbortResultAlways(chatId) == TRUE

\* the value abort returns
AbortResult(chatId) == activeQueries[chatId] # 0

\* (mutant) abort also denies the pending approvals and drops their timers
AbortDeniesPending(chatId) ==
  /\ ~halted
  /\ acAborted' = IF activeQueries[chatId] # 0
                    THEN acAborted \cup {activeQueries[chatId]}
                    ELSE acAborted
  /\ perms' = [r \in PermIds |->
                 IF r \in DOMAIN pendingPerms
                   THEN [perms[r] EXCEPT !.st = "returned",
                          !.resolves = Append(@, Decision("deny", "Aborted", FALSE, "abort"))]
                   ELSE perms[r]]
  /\ pendingPerms' = EmptyMap
  /\ timers' = EmptyMap
  /\ UNCHANGED <<activeQueries, alwaysAllowed, sessions, tasks, trustCache, resetSince,
                 halted>>

\* (mutant) abort also frees the conversation's slot
AbortFreesSlot(chatId) ==
  /\ ~halted
  /\ acAborted' = IF activeQueries[chatId] # 0
                    THEN acAborted \cup {activeQueries[chatId]}
                    ELSE acAborted
  /\ activeQueries' = [activeQueries EXCEPT ![chatId] = 0]
  /\ UNCHANGED <<pendingPerms, timers, alwaysAllowed, sessions, tasks, perms, trustCache, resetSince,
                 halted>>

\* the /abort command: claude.abort(jid)
Abort(chatId) ==
  /\ ~halted
  /\ acAborted' = IF activeQueries[chatId] # 0
                    THEN acAborted \cup {activeQueries[chatId]}
                    ELSE acAborted
  /\ UNCHANGED <<activeQueries, pendingPerms, timers, alwaysAllowed, sessions, tasks,
                 perms, trustCache, resetSince, halted>>

RECURSIVE ResolveAll(_, _, _)
ResolveAll(ps, handles, d) ==
  IF handles = {} THEN ps
  ELSE LET h == CHOOSE x \in handles : TRUE
       IN  ResolveAll(Resolve(pendingPerms, ps, pendingPerms[h].resolve, d), handles \ {h}, d)

\* (mutant) the drain denies the approvals and leaves their timers running
AbortAllKeepsTimers ==
  /\ acAborted' = acAborted \cup {activeQueries[c] : c \in {x \in Chats : activeQueries[x] # 0}}
  /\ activeQueries' = [c \in Chats |-> 0]
  /\ timers' = timers
  /\ perms' = ResolveAll(perms, DOMAIN pendingPerms,
                         Decision("deny", "Shutting down", FALSE, "drain"))
  /\ pendingPerms' = EmptyMap

\* (mutant) the approvals are denied but the map is not cleared
AbortAllKeepsPerms ==
  /\ acAborted' = acAborted \cup {activeQueries[c] : c \in {x \in Chats : activeQueries[x] # 0}}
  /\ activeQueries' = [c \in Chats |-> 0]
  /\ timers' = [id \in DOMAIN timers \ {pendingPerms[h].timer : h \in DOMAIN pendingPerms}
                  |-> timers[id]]
  /\ perms' = ResolveAll(perms, DOMAIN pendingPerms,
                         Decision("deny", "Shutting down", FALSE, "drain"))
  /\ pendingPerms' = pendingPerms

AbortAll ==
  /\ acAborted' = acAborted \cup {activeQueries[c] : c \in {x \in Chats : activeQueries[x] # 0}}
  /\ activeQueries' = [c \in Chats |-> 0]
  /\ timers' = [id \in DOMAIN timers \ {pendingPerms[h].timer : h \in DOMAIN pendingPerms}
                  |-> timers[id]]
  /\ perms' = ResolveAll(perms, DOMAIN pendingPerms,
                         Decision("deny", "Shutting down", FALSE, "drain"))
  /\ pendingPerms' = EmptyMap

\* (mutant) the shutdown hook drains but the process keeps running
ShutdownNoExit ==
  /\ ~halted
  /\ AbortAll
  /\ UNCHANGED <<alwaysAllowed, sessions, tasks, trustCache, resetSince, halted>>

\* SIGINT / SIGTERM: abortAll, disconnect, process.exit(0)
Shutdown ==
  /\ ~halted
  /\ AbortAll
  /\ halted' = TRUE
  /\ UNCHANGED <<alwaysAllowed, sessions, tasks, trustCache, resetSince>>

\* ------------------------------------------- the text of a permission prompt
DumpLimit == 200
ToolNames == {"Edit", "Write", "Read", "Bash", "Glob", "Grep", "WebFetch", "WebSearch", "Task"}
\* The lengths of the JSON text of an input.
JsonLens == {2, DumpLimit, DumpLimit + 1}
AllFields == [file_path |-> "/src/a.js", command |-> "npm test", pattern |-> "*.ts",
              url |-> "https://example.org", query |-> "tla", json |-> 2]
\* The inputs: no field, one field, every field, with a short JSON text; an
\* input of none of these fields with a JSON text at and over the limit.
Inputs ==
  {NoInput, AllFields}
    \cup {[NoInput EXCEPT ![f] = AllFields[f]] :
            f \in {"file_path", "command", "pattern", "url", "query"}}
    \cup {[NoInput EXCEPT !.json = n] : n \in JsonLens}
Reasons == {None, "outside the working directory"}

\* JSON.stringify(input): a text of input.json characters
stringify(input) == [i \in 1..input.json |-> "x"]

\* String.prototype.slice(0, end)
slice(str, end) == SubSeq(str, 1, IF Len(str) < end THEN Len(str) ELSE end)

\* value || "unknown"
OrUnknown(value) == IF value = None THEN "unknown" ELSE value

\* (mutant) every tool is described by the dump of its input
formatToolDescriptionDump(toolName, input) ==
  <<"Input: ">> \o slice(stringify(input), DumpLimit)

\* _formatToolDescription(toolName, input): the pieces of the line
formatToolDescription(toolName, input) ==
  CASE toolName \in {"Edit", "Write", "Read"} -> <<"File: ", OrUnknown(input.file_path)>>
    [] toolName = "Bash" -> <<"Command: ", OrUnknown(input.command)>>
    [] toolName \in {"Glob", "Grep"} -> <<"Pattern: ", OrUnknown(input.pattern)>>
    [] toolName = "WebFetch" -> <<"URL: ", OrUnknown(input.url)>>
    [] toolName = "WebSearch" -> <<"Query: ", OrUnknown(input.query)>>
    [] OTHER -> <<"Input: ">> \o slice(stringify(input), DumpLimit)

\* Array.prototype.join(separator) on lines given by their pieces
RECURSIVE join(_, _)
join(lines, separator) ==
  IF lines = <<>> THEN <<>>
  ELSE IF Len(lines) = 1 THEN Head(lines)
  ELSE Head(lines) \o <<separator>> \o join(Tail(lines), separator)

\* promptText of _handlePermission, as the sequence of its pieces
PromptTextOf(toolName, input, decisionReason) ==
  LET description == formatToolDescription(toolName, input)
      reason == IF decisionReason # None THEN <<"\n", "Reason: ", decisionReason>> ELSE <<>>
  IN join(<< <<"Permission needed">>,
             <<>>,
             <<"Tool: ", toolName>>,
             description,
             reason,
             <<>>,
             <<"Quote this message and reply:">>,
             <<"  yes - approve once">>,
             <<"  always - always approve this tool">>,
             <<"  no - deny">> >>, "\n")

\* _handlePermission(toolName, input, options, sendFn) up to the send of the
\* prompt, with the text it hands to sendFn
HandlePermissionInput(t, toolName, input, decisionReason) ==
  /\ HandlePermission(t, toolName, FALSE)
  /\ promptText' = IF toolName \in alwaysAllowed
                     THEN promptText
                     ELSE [toolName |-> toolName, input |-> input,
                           decisionReason |-> decisionReason,
                           text |-> PromptTextOf(toolName, input, decisionReason)]
  /\ UNCHANGED <<ALLOWED_USERS, lastMessage, browser, whatsapp, outbox, chunker>>

\* -------------------------------------------------------------- index.js
\* The state of the ClaudeHandler and of the process.
claude == <<activeQueries, acAborted, pendingPerms, timers, alwaysAllowed, sessions,
            tasks, perms, trustCache, resetSince, halted>>

\* isAuthorized(jid)
isAuthorized(jid) == IF ALLOWED_USERS = {} THEN TRUE ELSE jid \in ALLOWED_USERS

\* (mutant) the router goes on with every message
AdmittedAlways(jid, fromMe) == TRUE

\* The guard handleMessage starts with: FALSE when it returns at once.
Admitted(jid, fromMe) == IF fromMe THEN jid = userJid ELSE isAuthorized(jid)

\* get activeCount(): this.activeQueries.size
activeCount == Cardinality({c \in Chats : activeQueries[c] # 0})

\* (mutant) the pending count includes the requests whose prompt is on the way
pendingPermCountCalls == Cardinality({r \in PermIds : perms[r].st \in {"sending", "waiting"}})

\* get pendingPermCount(): this.pendingPerms.size
pendingPermCount == Cardinality(DOMAIN pendingPerms)

NewText == <<"/","n","e","w">>
AbortText == <<"/","a","b","o","r","t">>
StatusText == <<"/","s","t","a","t","u","s">>

\* The name of the slash command of a trimmed text.
cmdLower(trimmed) == toLowerCase(trimmed)

\* ------------------------------------------------------- file-browser.js
MaxPath == 4        \* characters of a requested path
PathChars == {"/", ".", "a"}
\* The requested paths: the strings of up to MaxPath characters.
Paths == UNION {[1..n -> PathChars] : n \in 0..MaxPath}
\* The working directories.
Roots == { <<"/","a">>, <<"/","a","/","a">> }

\* String.prototype.split("/")
RECURSIVE Split(_)
Split(s) ==
  IF s = <<>> THEN << <<>> >>
  ELSE LET rest == Split(Tail(s))
       IN IF Head(s) = "/" THEN << <<>> >> \o rest
                           ELSE << <<Head(s)>> \o Head(rest) >> \o Tail(rest)

\* path.normalize on segments: empty and "." segments are dropped, ".." drops
\* the segment before it and is dropped at the root.
RECURSIVE NormalizeSegments(_, _)
NormalizeSegments(segs, stack) ==
  IF segs = <<>> THEN stack
  ELSE NormalizeSegments(Tail(segs),
         IF Head(segs) = <<>> \/ Head(segs) = <<".">> THEN stack
         ELSE IF Head(segs) = <<".", ".">>
           THEN IF stack = <<>> THEN stack ELSE SubSeq(stack, 1, Len(stack) - 1)
         ELSE Append(stack, Head(segs)))

RECURSIVE JoinSegments(_)
JoinSegments(stack) ==
  IF stack = <<>> THEN <<>> ELSE <<"/">> \o Head(stack) \o JoinSegments(Tail(stack))

\* path.resolve(from, to) for an absolute from: an absolute to replaces from;
\* the result is normalized and has no trailing slash.
resolve(from, to) ==
  LET segs == IF to # <<>> /\ Head(to) = "/" THEN Split(to) ELSE Split(from) \o Split(to)
      joined == JoinSegments(NormalizeSegments(segs, <<>>))
  IN IF joined = <<>> THEN <<"/">> ELSE joined

\* String.prototype.startsWith
startsWith(s, prefix) ==
  Len(prefix) <= Len(s) /\ SubSeq(s, 1, Len(prefix)) = prefix

\* The segments of an absolute path.
Segments(p) == NormalizeSegments(Split(p), <<>>)

\* The number of leading segments two paths share.
RECURSIVE CommonLen(_, _)
CommonLen(a, b) ==
  IF a # <<>> /\ b # <<>> /\ Head(a) = Head(b) THEN 1 + CommonLen(Tail(a), Tail(b)) ELSE 0

\* path.relative(from, to) for absolute paths: ".." for every segment of from
\* after the shared ones, then the segments of to after them.
relative(from, to) ==
  LET f == Segments(from)
      t == Segments(to)
      n == CommonLen(f, t)
      ups == [i \in 1..(Len(f) - n) |-> <<".", ".">>]
      joined == JoinSegments(ups \o SubSeq(t, n + 1, Len(t)))
  IN IF joined = <<>> THEN <<>> ELSE Tail(joined)

\* The entries readdir returns, hidden ones filtered out, directories first and
\* then by name.
Listings ==
  { <<>>,
    << [name |-> <<"a">>, isDir |-> TRUE] >>,
    << [name |-> <<"a">>, isDir |-> TRUE], [name |-> <<"a", "a">>, isDir |-> FALSE] >> }

\* FileBrowser.browse(chatId, dirPath, rootDir), as the FileBrowser it leaves;
\* found: readdir returns the entries visible, otherwise it fails with ENOENT.
browse(chatId, dirPath, rootDir, found, visible) ==
  LET effectiveRoot == resolve(<<"/">>, rootDir)
      fullPath == resolve(effectiveRoot, dirPath)
      Call(fs, text) == [op |-> "browse", root |-> effectiveRoot, request |-> dirPath,
                         fs |-> fs, text |-> text]
      items == [i \in 1..Len(visible) |->
                  [relPath |-> relative(effectiveRoot,
                                        fullPath \o <<"/">> \o visible[i].name),
                   isDir |-> visible[i].isDir]]
  IN IF ~startsWith(fullPath, effectiveRoot)
       THEN [browser EXCEPT
               !.last = Call(NoPath, "Cannot navigate outside the project directory.")]
     ELSE IF ~found
       THEN [browser EXCEPT !.last = Call(fullPath, "Directory not found")]
     ELSE [sessions |-> browser.sessions \cup {chatId},
           listing |-> [browser.listing EXCEPT
                          ![chatId] = [rootDir |-> effectiveRoot, items |-> items]],
           last |-> Call(fullPath, "listing")]

\* FileBrowser.viewFile(filePath, rootDir), as the FileBrowser it leaves; found:
\* readFile returns the content, otherwise it fails with ENOENT.
viewFile(filePath, rootDir, found) ==
  LET effectiveRoot == resolve(<<"/">>, rootDir)
      fullPath == resolve(effectiveRoot, filePath)
      Call(fs, text) == [op |-> "viewFile", root |-> effectiveRoot, request |-> filePath,
                         fs |-> fs, text |-> text]
  IN IF ~startsWith(fullPath, effectiveRoot)
       THEN [browser EXCEPT
               !.last = Call(NoPath, "Cannot access files outside the project directory.")]
     ELSE IF ~found
       THEN [browser EXCEPT !.last = Call(fullPath, "File not found")]
     ELSE [browser EXCEPT !.last = Call(fullPath, "content")]

\* FileBrowser.handleNumberReply(chatId, number): the FileBrowser it leaves and
\* the text of its result (None: null). Without a session it returns null; a
\* number outside the listing is answered with the 'Invalid selection' text;
\* an entry is browsed when it is a directory and viewed otherwise, under the
\* session's root.
handleNumberReply(chatId, number, found, visible) ==
  LET session == browser.listing[chatId]
      idx == number - 1
  IN IF chatId \notin browser.sessions
       THEN [browser |-> browser, text |-> None]
     ELSE IF idx < 0 \/ idx >= Len(session.items)
       THEN [browser |-> browser, text |-> "Invalid selection"]
     ELSE LET item == session.items[idx + 1]
              after == IF item.isDir
                         THEN browse(chatId, item.relPath, session.rootDir, found, visible)
                         ELSE viewFile(item.relPath, session.rootDir, found)
          IN [browser |-> after, text |-> after.last.text]

\* (mutant) every chat counts as having a browse session
hasActiveSessionAlways(chatId) == TRUE

\* FileBrowser.hasActiveSession(chatId)
hasActiveSession(chatId) == chatId \in browser.sessions

\* A call of browse from the router's browse and ls commands
Browse(chatId, dirPath, rootDir, found, visible) ==
  /\ ~halted
  /\ browser' = browse(chatId, dirPath, rootDir, found, visible)
  /\ UNCHANGED <<claude, ALLOWED_USERS, lastMessage, promptText, whatsapp, outbox, chunker>>

\* A call of viewFile from the router's show and cat commands
ViewFile(filePath, rootDir, found) ==
  /\ ~halted
  /\ browser' = viewFile(filePath, rootDir, found)
  /\ UNCHANGED <<claude, ALLOWED_USERS, lastMessage, promptText, whatsapp, outbox, chunker>>

\* ------------------------------------------------------- index.js: routing
DigitChars == <<"0","1","2","3","4","5","6","7","8","9">>
Digits == {DigitChars[i] : i \in 1..Len(DigitChars)}

\* /^\d+$/.test(str)
isNumeric(str) == str # <<>> /\ \A i \in 1..Len(str) : str[i] \in Digits

\* parseInt(str, 10) of a numeric text
RECURSIVE parseInt(_)
parseInt(str) ==
  IF str = <<>> THEN 0
  ELSE 10 * parseInt(SubSeq(str, 1, Len(str) - 1))
         + (CHOOSE i \in 1..Len(DigitChars) : DigitChars[i] = str[Len(str)]) - 1

\* handleMessage(jid, text, quotedStanzaId, rawMsg, fromMe) for the texts that
\* are a number, /status, /new, /abort or a prompt: the guard; a quoted reply
\* goes to resolvePermission and ends there when that returns true; a number
\* goes to the file browser when the chat has a browse session, and its result
\* is sent; then the commands; every other text ends as the prompt of execute.
\* lastMessage records the call and what it handed to sendFn itself (the
\* messages of execute are those of the task). The file system holds no path
\* of more than MaxPath + 2 characters.
HandleMessage(jid, text, quotedStanzaId, fromMe) ==
  LET Sent(reply) ==
        lastMessage' = [jid |-> jid, text |-> text, quoted |-> quotedStanzaId,
                        fromMe |-> fromMe, reply |-> reply]
      cmd == cmdLower(trim(text))
  IN /\ ~halted
     /\ UNCHANGED <<ALLOWED_USERS, promptText, chunker>>
     /\ IF ~Admitted(jid, fromMe)
          THEN Sent(NoSend) /\ UNCHANGED claude /\ UNCHANGED browser
        ELSE IF quotedStanzaId # 0 /\ ResolvePermissionResult(quotedStanzaId)
          THEN Sent(NoSend) /\ ResolvePermission(quotedStanzaId, text) /\ UNCHANGED browser
        ELSE IF isNumeric(trim(text)) /\ hasActiveSession(jid)
          THEN \E found \in BOOLEAN, visible \in Listings :
                 LET result == handleNumberReply(jid, parseInt(trim(text)), found, visible)
                 IN /\ found => Len(result.browser.last.fs) <= MaxPath + 2
                    /\ browser' = result.browser
                    /\ Sent(IF result.text = None THEN NoSend ELSE Reply(result.text))
                    /\ UNCHANGED claude
        ELSE IF cmd = StatusText
          THEN /\ Sent([text |-> "CodeClaw Status", activeQueries |-> activeCount,
                        pendingPermissions |-> pendingPermCount])
               /\ UNCHANGED claude /\ UNCHANGED browser
        ELSE IF cmd = NewText
          THEN Sent(Reply("Session cleared.")) /\ ClearSession(jid) /\ UNCHANGED browser
        ELSE IF cmd = AbortText
          THEN /\ Sent(IF AbortResult(jid) THEN Reply("Aborting current task...")
                                            ELSE Reply("No active task to abort."))
               /\ Abort(jid) /\ UNCHANGED browser
        ELSE Sent(NoSend) /\ ExecuteCall(jid, quotedStanzaId) /\ UNCHANGED browser

\* ------------------------------------------------------------ whatsapp.js
MaxAttempts == 8    \* closes in a row without an open
_maxReconnectDelay == 30000
BackoffBase == 1000
Min(a, b) == IF a < b THEN a ELSE b

\* (mutant) the delay doubles without a cap
backoffDelayUncapped(attempts) == BackoffBase * 2 ^ attempts

\* Math.min(1000 * 2 ** this._reconnectAttempts, this._maxReconnectDelay)
backoffDelay(attempts) == Min(BackoffBase * 2 ^ attempts, _maxReconnectDelay)

\* connect(): the first socket is made and its handlers are those of connect.
Connect ==
  /\ whatsapp.sock = None
  /\ whatsapp' = [whatsapp EXCEPT !.sock = "connect", !.connection = "connecting"]
  /\ UNCHANGED <<claude, ALLOWED_USERS, lastMessage, browser, promptText, outbox, chunker>>

\* "connection.update" with connection === "open", in connect and in _reconnect
ConnectionOpen ==
  /\ whatsapp.connection = "connecting"
  /\ whatsapp' = [whatsapp EXCEPT !._reconnectAttempts = 0, !.connection = "open",
                                  !.closes = 0]
  /\ UNCHANGED <<claude, ALLOWED_USERS, lastMessage, browser, promptText, outbox, chunker>>

\* "connection.update" with connection === "close", in connect and in
\* _reconnect: logged out ends the client; every other close schedules
\* _reconnect after the backoff delay and counts the attempt.
ConnectionClose(loggedOut) ==
  /\ whatsapp.connection \in {"connecting", "open"}
  /\ whatsapp._reconnectAttempts < MaxAttempts
  /\ whatsapp' =
       IF loggedOut THEN [whatsapp EXCEPT !.connection = "loggedOut"]
       ELSE [whatsapp EXCEPT
               !.connection = "close",
               !.timer = backoffDelay(whatsapp._reconnectAttempts),
               !.delay = backoffDelay(whatsapp._reconnectAttempts),
               !.elapsed = 0,
               !._reconnectAttempts = @ + 1,
               !.closes = @ + 1]
  /\ UNCHANGED <<claude, ALLOWED_USERS, lastMessage, browser, promptText, outbox, chunker>>

\* A second of the reconnect timer's wait passes.
ReconnectWait ==
  /\ whatsapp.timer # 0
  /\ whatsapp.elapsed + BackoffBase <= whatsapp.timer
  /\ whatsapp' = [whatsapp EXCEPT !.elapsed = @ + BackoffBase]
  /\ UNCHANGED <<claude, ALLOWED_USERS, lastMessage, browser, promptText, outbox, chunker>>

\* The setTimeout callback: _reconnect makes a new socket with its own handlers.
Reconnect ==
  /\ whatsapp.timer # 0
  /\ whatsapp.elapsed + BackoffBase > whatsapp.timer
  /\ whatsapp' = [whatsapp EXCEPT !.sock = "_reconnect", !.connection = "connecting",
                                  !.timer = 0, !.elapsed = 0]
  /\ UNCHANGED <<claude, ALLOWED_USERS, lastMessage, browser, promptText, outbox, chunker>>

\* A text the bot sends, the first message of every task.
BotText == <<"W","o","r","k","i","n","g">>

\* sendText(jid, text) up to its await: sock.sendMessage is called and the
\* message is given its id. The calls are made by handleMessage and by its
\* tasks, so the connection has opened and main has registered the callback.
SendText(id, jid) ==
  /\ whatsapp.connection = "open"
  /\ outbox[id].send = None
  /\ \A i \in SentIds : i < id => outbox[i].send # None
  /\ outbox' = [outbox EXCEPT ![id] = [@ EXCEPT !.send = "pending", !.jid = jid]]
  /\ UNCHANGED <<claude, ALLOWED_USERS, lastMessage, browser, promptText, whatsapp, chunker>>

\* sendText after its await: sock.sendMessage has resolved, the id is added to
\* _sentIds and returned.
SendTextDone(id) ==
  /\ outbox[id].send = "pending"
  /\ outbox' = [outbox EXCEPT ![id] = [@ EXCEPT !.send = "done"]]
  /\ whatsapp' = [whatsapp EXCEPT !._sentIds = @ \cup {id}]
  /\ UNCHANGED <<claude, ALLOWED_USERS, lastMessage, browser, promptText, chunker>>

\* _handleUpsert(messages) for the "messages.upsert" event of a message the
\* bot sent, which the socket emits once the message is on its way: an id in
\* _sentIds is deleted and the message skipped; every other message is handed
\* to the callback, handleMessage, as a message of the account (fromMe).
HandleUpsert(id) ==
  /\ outbox[id].send # None
  /\ outbox[id].upsert = None
  /\ IF id \in whatsapp._sentIds
       THEN /\ whatsapp' = [whatsapp EXCEPT !._sentIds = @ \ {id}]
            /\ outbox' = [outbox EXCEPT ![id] = [@ EXCEPT !.upsert = "skipped"]]
            /\ UNCHANGED <<claude, ALLOWED_USERS, lastMessage, browser, promptText, chunker>>
       ELSE /\ outbox' = [outbox EXCEPT ![id] = [@ EXCEPT !.upsert = "delivered"]]
            /\ HandleMessage(outbox[id].jid, BotText, 0, TRUE)
            /\ UNCHANGED whatsapp

\* ------------------------------------------------- sendChunked, makeSendFn
MaxText == 5        \* characters of a text to send
MaxChunk == 3       \* the largest maxLen; in makeSendFn it stands for the 4000
TextChars == {"a", "b", "\n", " "}
Texts == UNION {[1..n -> TextChars] : n \in 0..MaxText}

\* String.prototype.lastIndexOf(ch, fromIndex): the last index, from 0, at or
\* before fromIndex that holds ch; -1 when there is none.
lastIndexOf(str, ch, fromIndex) ==
  LET hits == {i \in 0..Min(fromIndex, Len(str) - 1) : str[i + 1] = ch}
  IN IF hits = {} THEN -1 ELSE CHOOSE i \in hits : \A j \in hits : j <= i

\* String.prototype.slice(start)
sliceFrom(str, start) == SubSeq(str, start + 1, Len(str))

\* The split point of sendChunked: the last newline at or before maxLen, and
\* maxLen when that is before the half of maxLen or there is none.
splitPoint(remaining, maxLen) ==
  LET splitAt == lastIndexOf(remaining, "\n", maxLen)
  IN IF 2 * splitAt < maxLen THEN maxLen ELSE splitAt

\* (mutant) the id of the first chunk is returned
sendFnResultFirst(ids) == IF ids = <<>> THEN 0 ELSE ids[1].id

\* ids[ids.length - 1]
sendFnResult(ids) == IF ids = <<>> THEN 0 ELSE ids[Len(ids)].id

\* sendChunked(jid, text, maxLen) up to its loop
SendChunkedCall(text, maxLen) ==
  /\ chunker.st = "idle"
  /\ chunker' = [NoChunker EXCEPT !.st = "looping", !.via = "sendChunked", !.text = text,
                                  !.maxLen = maxLen, !.remaining = text]
  /\ UNCHANGED <<claude, ALLOWED_USERS, lastMessage, browser, promptText, whatsapp, outbox>>

\* The send function of makeSendFn called with text; limit stands for 4000,
\* the length above which it calls sendChunked and that call's default maxLen.
\* A text within the limit is sent by one sendText, whose id is returned.
SendFn(text, limit) ==
  /\ chunker.st = "idle"
  /\ chunker' =
       IF Len(text) > limit
         THEN [NoChunker EXCEPT !.st = "looping", !.via = "sendFn", !.text = text,
                                !.maxLen = limit, !.remaining = text]
         ELSE [NoChunker EXCEPT !.st = "done", !.via = "sendFn", !.text = text,
                                !.maxLen = limit, !.ids = <<[id |-> 1, text |-> text]>>,
                                !.returned = 1]
  /\ UNCHANGED <<claude, ALLOWED_USERS, lastMessage, browser, promptText, whatsapp, outbox>>

\* One turn of the loop of sendChunked, to the end of its awaited sendText: the
\* rest is sent whole when it fits, otherwise its head up to the split point is
\* sent and the rest is what follows, trimmed at its start. The loop ends on an
\* empty rest; sendFn then returns the id of the last chunk.
SendChunkedStep ==
  /\ chunker.st = "looping"
  /\ LET remaining == chunker.remaining
         maxLen == chunker.maxLen
         splitAt == splitPoint(remaining, maxLen)
         Push(chunk) == Append(chunker.ids, [id |-> Len(chunker.ids) + 1, text |-> chunk])
         Return(ids) == IF chunker.via = "sendFn" THEN sendFnResult(ids) ELSE 0
     IN chunker' =
          IF Len(remaining) = 0
            THEN [chunker EXCEPT !.st = "done", !.returned = Return(chunker.ids)]
          ELSE IF Len(remaining) <= maxLen
            THEN [chunker EXCEPT !.st = "done", !.ids = Push(remaining),
                                 !.returned = Return(Push(remaining))]
          ELSE LET rest == trimStart(sliceFrom(remaining, splitAt))
                   ids == Push(slice(remaining, splitAt))
               IN [chunker EXCEPT !.ids = ids, !.remaining = rest,
                                  !.st = IF rest = <<>> THEN "done" ELSE "looping",
                                  !.returned = IF rest = <<>> THEN Return(ids) ELSE 0]
  /\ UNCHANGED <<claude, ALLOWED_USERS, lastMessage, browser, promptText, whatsapp, outbox>>

\* ------------------------------------------------------------------ time
\* The time left to the timer that is due next.
Remaining(id) == timers[id].delay - timers[id].elapsed
NextDue == CHOOSE d \in {Remaining(id) : id \in DOMAIN timers} :
             \A id \in DOMAIN timers : d <= Remaining(id)

\* d ms pass. Time is sampled one ms before, and at, each deadline; it never
\* passes the deadline of a live timer: the event loop runs a due timer before
\* it handles any later event.
Tick ==
  /\ ~halted
  /\ timers # EmptyMap
  /\ \E d \in {NextDue - 1, NextDue} :
       /\ d >= 1
       /\ timers' = [id \in DOMAIN timers |-> [timers[id] EXCEPT !.elapsed = @ + d]]
  /\ UNCHANGED <<activeQueries, acAborted, pendingPerms, alwaysAllowed, sessions,
                 tasks, perms, trustCache, resetSince, halted>>

\* ------------------------------------------------------------ specifications
Subtypes == {"success", "successEmpty", "error_during_execution"}

\* The task lifecycle: execute, the engine's event stream, abort, /new, shutdown.
\* The permission bridge reads the tasks' positions and writes none of the
\* variables these actions read, so it is left to the specifications below.
NextTasks ==
  \/ \E c \in Chats : Execute(c) /\ UNCHANGED index
  \/ \E t \in TaskIds, ok \in BOOLEAN : ExecuteRejectSent(t, ok) /\ UNCHANGED index
  \/ \E t \in TaskIds, ok \in BOOLEAN : ExecuteWorkingSent(t, ok) /\ UNCHANGED index
  \/ \E t \in TaskIds, st \in Subtypes : EngineResult(t, None, st) /\ UNCHANGED index
  \/ \E t \in TaskIds : EngineEnd(t) /\ UNCHANGED index
  \/ \E t \in TaskIds : EngineThrow(t) /\ UNCHANGED index
  \/ \E t \in TaskIds, ok \in BOOLEAN : ExecuteResultSent(t, ok) /\ UNCHANGED index
  \/ \E t \in TaskIds, ok \in BOOLEAN : ExecuteCatchSent(t, ok) /\ UNCHANGED index
  \/ \E c \in Chats : Abort(c) /\ UNCHANGED index
  \/ Shutdown /\ UNCHANGED index

SpecTasks == Init /\ [][NextTasks]_vars

\* The channel settles every send it was handed: the promise sendFn returns is
\* fulfilled or rejected.
FairTasks ==
  /\ SpecTasks
  /\ \A t \in TaskIds : WF_vars(\E ok \in BOOLEAN : ExecuteResultSent(t, ok) /\ UNCHANGED index)
  /\ \A t \in TaskIds : WF_vars(\E ok \in BOOLEAN : ExecuteCatchSent(t, ok) /\ UNCHANGED index)

\* Cancellation: the task lifecycle with an engine that answers the abort of
\* its controller by raising (the AbortError the catch block tests for); an
\* engine whose controller is not aborted ends its stream or raises as it likes.
NextAbort ==
  \/ \E c \in Chats : Execute(c) /\ UNCHANGED index
  \/ \E t \in TaskIds, ok \in BOOLEAN : ExecuteRejectSent(t, ok) /\ UNCHANGED index
  \/ \E t \in TaskIds, ok \in BOOLEAN : ExecuteWorkingSent(t, ok) /\ UNCHANGED index
  \/ \E t \in TaskIds, st \in Subtypes : EngineResult(t, None, st) /\ UNCHANGED index
  \/ \E t \in TaskIds : t \notin acAborted /\ EngineEnd(t) /\ UNCHANGED index
  \/ \E t \in TaskIds : EngineThrow(t) /\ UNCHANGED index
  \/ \E t \in TaskIds, ok \in BOOLEAN : ExecuteResultSent(t, ok) /\ UNCHANGED index
  \/ \E t \in TaskIds, ok \in BOOLEAN : ExecuteCatchSent(t, ok) /\ UNCHANGED index
  \/ \E c \in Chats : Abort(c) /\ UNCHANGED index
  \/ Shutdown /\ UNCHANGED index

SpecAbort == Init /\ [][NextAbort]_vars

\* The channel settles every send, and an engine whose controller is aborted
\* terminates its event sequence.
FairAbort ==
  /\ SpecAbort
  /\ \A t \in TaskIds : WF_vars(\E ok \in BOOLEAN : ExecuteWorkingSent(t, ok) /\ UNCHANGED index)
  /\ \A t \in TaskIds : WF_vars(t \in acAborted /\ EngineThrow(t) /\ UNCHANGED index)
  /\ \A t \in TaskIds : WF_vars(\E ok \in BOOLEAN : ExecuteCatchSent(t, ok) /\ UNCHANGED index)

\* Sessions: two conversations, the session ids the engine reports in its
\* messages and in its result, /new, abort, shutdown; every send is delivered.
NextSessions ==
  \/ \E c \in Chats : Execute(c) /\ UNCHANGED index
  \/ \E t \in TaskIds : ExecuteRejectSent(t, TRUE) /\ UNCHANGED index
  \/ \E t \in TaskIds : ExecuteWorkingSent(t, TRUE) /\ UNCHANGED index
  \/ \E t \in TaskIds, sid \in Tokens : EngineMessage(t, sid) /\ UNCHANGED index
  \/ \E t \in TaskIds, sid \in Tokens \cup {None} : EngineResult(t, sid, "success") /\ UNCHANGED index
  \/ \E t \in TaskIds : EngineEnd(t) /\ UNCHANGED index
  \/ \E t \in TaskIds : EngineThrow(t) /\ UNCHANGED index
  \/ \E t \in TaskIds : ExecuteResultSent(t, TRUE) /\ UNCHANGED index
  \/ \E t \in TaskIds : ExecuteCatchSent(t, TRUE) /\ UNCHANGED index
  \/ \E c \in Chats : ClearSession(c) /\ UNCHANGED index
  \/ \E c \in Chats : Abort(c) /\ UNCHANGED index
  \/ Shutdown /\ UNCHANGED index

SpecSessions == Init /\ [][NextSessions]_vars

\* Rejection: one conversation whose running task has a stored session, pending
\* approvals and a trusted tool when further messages arrive for it.
NextReject ==
  \/ Execute("c1") /\ UNCHANGED index
  \/ \E t \in TaskIds, ok \in BOOLEAN : ExecuteRejectSent(t, ok) /\ UNCHANGED index
  \/ \E t \in TaskIds : ExecuteWorkingSent(t, TRUE) /\ UNCHANGED index
  \/ \E t \in TaskIds : EngineResult(t, "s1", "success") /\ UNCHANGED index
  \/ \E t \in TaskIds : EngineEnd(t) /\ UNCHANGED index
  \/ \E t \in TaskIds : ExecuteResultSent(t, TRUE) /\ UNCHANGED index
  \/ \E t \in TaskIds, k \in Tools : HandlePermission(t, k, FALSE) /\ UNCHANGED index
  \/ \E r \in PermIds : PromptSent(r, TRUE) /\ UNCHANGED index
  \/ \E h \in StanzaIds : ResolvePermission(h, <<"a","l","w","a","y","s">>) /\ UNCHANGED index
  \/ Abort("c1") /\ UNCHANGED index

SpecReject == Init /\ [][NextReject]_vars

\* The tasks of SpecTrust, SpecTimeout and SpecReply are those of SpecTasks with
\* every task message delivered and no result text: the bridge reads only a
\* task's conversation and whether its engine is running.

\* Trust: two conversations, their approval requests and replies, /new in the
\* first of them, shutdown, within the first timeout period.
BridgeTexts == { <<"y","e","s">>, <<"A","l","w","a","y","s">>, <<"n","o">> }

NextTrust ==
  \/ \E c \in Chats : Execute(c) /\ UNCHANGED index
  \/ \E t \in TaskIds : ExecuteRejectSent(t, TRUE) /\ UNCHANGED index
  \/ \E t \in TaskIds : ExecuteWorkingSent(t, TRUE) /\ UNCHANGED index
  \/ \E t \in TaskIds : EngineEnd(t) /\ UNCHANGED index
  \/ \E t \in TaskIds : EngineThrow(t) /\ UNCHANGED index
  \/ \E t \in TaskIds : ExecuteCatchSent(t, TRUE) /\ UNCHANGED index
  \/ \E t \in TaskIds, k \in Tools : HandlePermission(t, k, FALSE) /\ UNCHANGED index
  \/ \E r \in PermIds, ok \in BOOLEAN : PromptSent(r, ok) /\ UNCHANGED index
  \/ \E h \in StanzaIds, d \in BridgeTexts : ResolvePermission(h, d) /\ UNCHANGED index
  \/ ClearSession("c1") /\ UNCHANGED index
  \/ Shutdown /\ UNCHANGED index

SpecTrust == Init /\ [][NextTrust]_vars

\* Timeouts: one conversation, its approval requests, replies, the timers and
\* the clock, abort, shutdown.
NextTimeout ==
  \/ Execute("c1") /\ UNCHANGED index
  \/ \E t \in TaskIds : ExecuteRejectSent(t, TRUE) /\ UNCHANGED index
  \/ \E t \in TaskIds : ExecuteWorkingSent(t, TRUE) /\ UNCHANGED index
  \/ \E t \in TaskIds : EngineEnd(t) /\ UNCHANGED index
  \/ \E t \in TaskIds : EngineThrow(t) /\ UNCHANGED index
  \/ \E t \in TaskIds : ExecuteCatchSent(t, TRUE) /\ UNCHANGED index
  \/ \E t \in TaskIds : HandlePermission(t, "Edit", FALSE) /\ UNCHANGED index
  \/ \E r \in PermIds, ok \in BOOLEAN : PromptSent(r, ok) /\ UNCHANGED index
  \/ \E id \in PermIds : TimerFire(id) /\ UNCHANGED index
  \/ \E h \in StanzaIds, d \in BridgeTexts : ResolvePermission(h, d) /\ UNCHANGED index
  \/ Abort("c1") /\ UNCHANGED index
  \/ Shutdown /\ UNCHANGED index
  \/ Tick /\ UNCHANGED index

SpecTimeout == Init /\ [][NextTimeout]_vars

\* Time passes and a due timer's callback is run.
FairTimeout ==
  /\ SpecTimeout
  /\ WF_vars(Tick /\ UNCHANGED index)
  /\ \A id \in PermIds : WF_vars(TimerFire(id) /\ UNCHANGED index)

\* Replies: one conversation, every reply text, with and without permission
\* suggestions from the engine.
NextReply ==
  \/ Execute("c1") /\ UNCHANGED index
  \/ \E t \in TaskIds : ExecuteRejectSent(t, TRUE) /\ UNCHANGED index
  \/ \E t \in TaskIds : ExecuteWorkingSent(t, TRUE) /\ UNCHANGED index
  \/ \E t \in TaskIds, k \in Tools, sg \in BOOLEAN : HandlePermission(t, k, sg) /\ UNCHANGED index
  \/ \E r \in PermIds : PromptSent(r, TRUE) /\ UNCHANGED index
  \/ \E h \in StanzaIds, d \in ReplyTexts : ResolvePermission(h, d) /\ UNCHANGED index

SpecReply == Init /\ [][NextReply]_vars

\* Routing: the messages of one conversation that read "Always", with and
\* without a quoted message id, its approval requests, the timers and the
\* clock.
NextRouter ==
  \/ \E h \in StanzaIds :
       HandleMessage("c1", <<"A","l","w","a","y","s">>, h, TRUE) /\ UNCHANGED <<whatsapp, outbox>>
  \/ \E t \in TaskIds : ExecuteRejectSent(t, TRUE) /\ UNCHANGED index
  \/ \E t \in TaskIds : ExecuteWorkingSent(t, TRUE) /\ UNCHANGED index
  \/ \E t \in TaskIds : EngineEnd(t) /\ UNCHANGED index
  \/ \E t \in TaskIds : HandlePermission(t, "Edit", FALSE) /\ UNCHANGED index
  \/ \E r \in PermIds : PromptSent(r, TRUE) /\ UNCHANGED index
  \/ \E id \in PermIds : TimerFire(id) /\ UNCHANGED index
  \/ Tick /\ UNCHANGED index

SpecRouter == Init /\ [][NextRouter]_vars

\* Authorization: ALLOWED_USERS is the owner's number; the messages that read
\* "Always", /new, /abort and /status, unquoted and quoting the first prompt,
\* of the owner in the self-chat, of the other party of a second chat and of the
\* owner in that chat; the tasks and the first task's approval requests.
RouterTexts == { <<"A","l","w","a","y","s">>, NewText, AbortText, <<"/","S","t","a","t","u","s"," ">> }

\* The owner in the self-chat; the other party and the owner in another chat.
Senders == { [jid |-> userJid, fromMe |-> TRUE],
             [jid |-> "c2", fromMe |-> FALSE], [jid |-> "c2", fromMe |-> TRUE] }

NextAuth ==
  \/ \E m \in Senders, text \in RouterTexts, h \in {0, 1} :
       HandleMessage(m.jid, text, h, m.fromMe) /\ UNCHANGED <<whatsapp, outbox>>
  \/ \E t \in TaskIds : ExecuteRejectSent(t, TRUE) /\ UNCHANGED index
  \/ \E t \in TaskIds : ExecuteWorkingSent(t, TRUE) /\ UNCHANGED index
  \/ \E t \in TaskIds : EngineEnd(t) /\ UNCHANGED index
  \/ HandlePermission(1, "Edit", FALSE) /\ UNCHANGED index
  \/ \E r \in PermIds : PromptSent(r, TRUE) /\ UNCHANGED index

SpecAuth == InitAllowed /\ [][NextAuth]_vars

\* Commands: every sender is authorized; the messages of the owner's self-chat
\* and of a second chat that read "Always", /new, /abort and /status, unquoted
\* and quoting the first prompt; the tasks, cancelled tasks included, and the
\* first task's approval requests.
NextCommands ==
  \/ \E text \in RouterTexts, h \in {0, 1} :
       HandleMessage(userJid, text, h, TRUE) /\ UNCHANGED <<whatsapp, outbox>>
  \/ HandleMessage("c2", <<"A","l","w","a","y","s">>, 0, FALSE) /\ UNCHANGED <<whatsapp, outbox>>
  \/ \E t \in TaskIds : ExecuteRejectSent(t, TRUE) /\ UNCHANGED index
  \/ \E t \in TaskIds : ExecuteWorkingSent(t, TRUE) /\ UNCHANGED index
  \/ \E t \in TaskIds : EngineEnd(t) /\ UNCHANGED index
  \/ \E t \in TaskIds : t \in acAborted /\ EngineThrow(t) /\ UNCHANGED index
  \/ \E t \in TaskIds : ExecuteCatchSent(t, TRUE) /\ UNCHANGED index
  \/ HandlePermission(1, "Edit", FALSE) /\ UNCHANGED index
  \/ \E r \in PermIds : PromptSent(r, TRUE) /\ UNCHANGED index

SpecCommands == Init /\ [][NextCommands]_vars

\* The file browser: every working directory and requested path, found and
\* not found, for one chat; the directories listed are empty.
NextBrowser ==
  \/ \E p \in Paths, r \in Roots, found \in BOOLEAN :
       Browse("c1", p, r, found, <<>>)
  \/ \E p \in Paths, r \in Roots, found \in BOOLEAN : ViewFile(p, r, found)

SpecBrowser == Init /\ [][NextBrowser]_vars

\* Prompts: one conversation, the approval requests of every tool with every
\* input and with and without a decision reason, "always" replies.
NextPrompt ==
  \/ Execute("c1") /\ UNCHANGED index
  \/ \E t \in TaskIds : ExecuteRejectSent(t, TRUE) /\ UNCHANGED index
  \/ \E t \in TaskIds : ExecuteWorkingSent(t, TRUE) /\ UNCHANGED index
  \/ \E t \in TaskIds, k \in ToolNames, inp \in Inputs, why \in Reasons :
       HandlePermissionInput(t, k, inp, why)
  \/ \E r \in PermIds : PromptSent(r, TRUE) /\ UNCHANGED index
  \/ \E h \in StanzaIds : ResolvePermission(h, <<"a">>) /\ UNCHANGED index

SpecPrompt == Init /\ [][NextPrompt]_vars

\* The connection's life: opens, closes and the waits between them.
NextReconnect ==
  \/ Connect
  \/ ConnectionOpen
  \/ \E loggedOut \in BOOLEAN : ConnectionClose(loggedOut)
  \/ ReconnectWait
  \/ Reconnect

SpecReconnect == Init /\ [][NextReconnect]_vars

\* The bot's own messages: the sends to the self-chat and to a second chat,
\* their upsert events in either order with the end of the send, and the tasks
\* a routed message starts.
NextUpsert ==
  \/ Connect
  \/ ConnectionOpen
  \/ \E id \in SentIds, jid \in Chats : SendText(id, jid)
  \/ \E id \in SentIds : SendTextDone(id)
  \/ \E id \in SentIds : HandleUpsert(id)
  \/ \E t \in TaskIds : ExecuteRejectSent(t, TRUE) /\ UNCHANGED index
  \/ \E t \in TaskIds : ExecuteWorkingSent(t, TRUE) /\ UNCHANGED index
  \/ \E t \in TaskIds : EngineEnd(t) /\ UNCHANGED index

SpecUpsert == Init /\ [][NextUpsert]_vars

\* Sending long texts: the texts of up to MaxText characters sent by
\* sendChunked with every maxLen up to MaxChunk, and by the send function.
NextChunks ==
  \/ \E text \in Texts, maxLen \in 1..MaxChunk : SendChunkedCall(text, maxLen)
  \/ \E text \in Texts, limit \in 1..MaxChunk : SendFn(text, limit)
  \/ SendChunkedStep

SpecChunks == Init /\ [][NextChunks]_vars

\* Every awaited sendText settles, so the loop goes on.
FairChunks == SpecChunks /\ WF_vars(SendChunkedStep)

\* Numbers: the messages of a chat that read a number, with white space
\* around it, or a text that starts with one, unquoted and quoting a message
\* that is no pending prompt; its listings of no, one and two entries; a second chat, never browsed, that sends a number; the tasks these
\* messages start.
NumberTexts == { <<"0">>, <<"3">>, <<" ", "2", "\n">>, <<"0", "1">>, <<"2", "a">> }

NextNumbers ==
  \/ \E found \in BOOLEAN, visible \in Listings :
       Browse(userJid, <<".">>, <<"/", "a">>, found, visible)
  \/ \E text \in NumberTexts, h \in {0, 1} :
       HandleMessage(userJid, text, h, TRUE) /\ UNCHANGED <<whatsapp, outbox>>
  \/ HandleMessage("c2", <<"1">>, 0, FALSE) /\ UNCHANGED <<whatsapp, outbox>>
  \/ \E t \in TaskIds : ExecuteRejectSent(t, TRUE) /\ UNCHANGED index
  \/ \E t \in TaskIds : ExecuteWorkingSent(t, TRUE) /\ UNCHANGED index
  \/ \E t \in TaskIds : EngineEnd(t) /\ UNCHANGED index

SpecNumbers == Init /\ [][NextNumbers]_vars

\* The trust set: one conversation, its approval requests for both tools, the
\* replies yes, always, a, no and a text that is none of them, quoting a prompt
\* or another message, the timers and the clock, /new, abort, shutdown.
TrustSetTexts ==
  { <<"y","e","s">>, <<"A","l","w","a","y","s">>, <<"a">>, <<"n","o">>, <<"a","l","l">> }

NextTrustSet ==
  \/ Execute("c1") /\ UNCHANGED index
  \/ \E t \in TaskIds : ExecuteRejectSent(t, TRUE) /\ UNCHANGED index
  \/ \E t \in TaskIds : ExecuteWorkingSent(t, TRUE) /\ UNCHANGED index
  \/ \E t \in TaskIds : EngineEnd(t) /\ UNCHANGED index
  \/ \E t \in TaskIds : EngineThrow(t) /\ UNCHANGED index
  \/ \E t \in TaskIds : ExecuteCatchSent(t, TRUE) /\ UNCHANGED index
  \/ \E t \in TaskIds, k \in Tools : HandlePermission(t, k, FALSE) /\ UNCHANGED index
  \/ \E r \in PermIds : PromptSent(r, TRUE) /\ UNCHANGED index
  \/ \E id \in PermIds : TimerFire(id) /\ UNCHANGED index
  \/ \E h \in StanzaIds, d \in TrustSetTexts : ResolvePermission(h, d) /\ UNCHANGED index
  \/ ClearSession("c1") /\ UNCHANGED index
  \/ Abort("c1") /\ UNCHANGED index
  \/ Shutdown /\ UNCHANGED index
  \/ Tick /\ UNCHANGED index

SpecTrustSet == Init /\ [][NextTrustSet]_vars

\* ================================================================== claims
\* The calls of execute for conversation c that have not reached their end.
Running(c) == {t \in TaskIds : tasks[t].chatId = c /\ tasks[t].pc \in NonTerminal}
HoldsNoSlot(t) == \A c \in Chats : activeQueries[c] # t
StreamEnded == {"sendResult", "sendStopped", "sendError"}

\* C1: at most one non-terminal task per conversation; an execute called while
\* an earlier execute of the same conversation has not reached its terminal
\* state is rejected, holds no slot and never starts the engine, so of the
\* interleaved calls for one conversation only one has the engine running.
C1_SingleTaskPerConversation ==
  /\ \A c \in Chats : Cardinality(Running(c)) <= 1
  /\ \A t \in TaskIds :
       tasks[t].sawActive => tasks[t].pc \in {"rejecting", "rejected"}
  /\ \A t \in TaskIds :
       tasks[t].pc \in {"rejecting", "rejected"} => ~tasks[t].started /\ HoldsNoSlot(t)

\* C1 witness: a second execute was rejected with the 'already running'
\* message while the first task of its conversation is still streaming.
C1_Witness ==
  \E t1, t2 \in TaskIds :
    /\ tasks[t1].pc = "streaming" /\ tasks[t2].chatId = tasks[t1].chatId
    /\ tasks[t2].pc = "rejected" /\ tasks[t2].sawActive
    /\ tasks[t2].outcome = "alreadyRunning"

\* C10: a task that reaches its end has released its conversation's slot, also
\* when the sends of its messages failed, and the slot is then free for a new
\* execute; once a task's event stream has ended the task eventually holds no
\* slot.
C10_SlotReleased ==
  /\ [][\A t \in TaskIds :
          (tasks[t].pc \in NonTerminal /\ tasks'[t].pc = "done")
            => activeQueries'[tasks[t].chatId] = 0]_vars
  /\ \A t \in TaskIds : (tasks[t].pc \in StreamEnded) ~> HoldsNoSlot(t)

\* C10 witness: a task ended with the send of its last message failed, and its
\* conversation's slot is free.
C10_Witness ==
  \E t \in TaskIds :
    /\ tasks[t].pc = "done" /\ tasks[t].outcome = "sendFailed"
    /\ activeQueries[tasks[t].chatId] = 0
    /\ ~halted

\* ------------------------------------------------- the approvals' promises
IsDecision(d, behavior, message, by) ==
  d.behavior = behavior /\ d.message = message /\ d.by = by

\* The approvals settled by trigger `by`.
SettledBy(by) ==
  {r \in PermIds : perms[r].resolves # <<>> /\ perms[r].resolves[1].by = by}

\* C2: the resolve function of an approval's promise is called at most once, by
\* the reply, the timer or abortAll, whichever comes first; a settled approval
\* is in pendingPerms no more, has no live timer, and stays as it was settled.
C2_ResolvedAtMostOnce ==
  /\ [](\A r \in PermIds :
          /\ Len(perms[r].resolves) <= 1
          /\ perms[r].st = "returned" =>
               /\ Len(perms[r].resolves) = 1
               /\ perms[r].resolves[1].by \in {"reply", "timer", "drain", "trust"}
               /\ r \notin DOMAIN pendingPerms
               /\ r \notin DOMAIN timers
          /\ r \in DOMAIN pendingPerms =>
               perms[r].st = "waiting" /\ perms[r].resolves = <<>>)
  /\ [][\A r \in PermIds : perms[r].st = "returned" => perms'[r] = perms[r]]_vars

\* C2 witness: one approval was settled by a reply and another by its timer.
C2_Witness == SettledBy("reply") # {} /\ SettledBy("timer") # {}

\* C3: a registered approval always has a live timer that is not past its
\* deadline, and, time passing and due timers firing, every registered
\* approval is eventually settled with allow or deny.
C3_EventuallyResolved ==
  /\ [](\A r \in DOMAIN pendingPerms :
          r \in DOMAIN timers /\ timers[r].elapsed <= PERM_TIMEOUT_MS)
  /\ \A r \in PermIds :
       (r \in DOMAIN pendingPerms)
         ~> (perms[r].resolves # <<>> /\ perms[r].resolves[1].behavior \in {"allow", "deny"})

\* C3 witness: an approval was settled by its timer after its task was aborted
\* and had ended.
C3_Witness ==
  \E r \in SettledBy("timer") :
    perms[r].task \in acAborted /\ tasks[perms[r].task].pc = "done"

\* C8: a registered approval is never pending past its deadline; the timer
\* settles it only when the full 120000 ms have passed, with deny 'Permission
\* timed out', and removes the entry; a reply that settles it leaves no live
\* timer; a settled approval is not in pendingPerms (a later reply finds no
\* entry and resolvePermission returns false) and its decision never changes.
C8_TimeoutAtDeadline ==
  /\ [](\A r \in DOMAIN pendingPerms :
          r \in DOMAIN timers /\ timers[r].elapsed <= PERM_TIMEOUT_MS)
  /\ [][\A r \in PermIds :
          (perms[r].st = "waiting" /\ perms'[r].st = "returned") =>
            LET d == perms'[r].resolves[1]
            IN  /\ d.by = "timer" =>
                     /\ r \in DOMAIN timers /\ timers[r].elapsed = PERM_TIMEOUT_MS
                     /\ IsDecision(d, "deny", "Permission timed out", "timer")
                /\ d.by = "reply" => r \notin DOMAIN timers'
                /\ ~ResolvePermissionResult(r)']_vars
  /\ [][\A r \in PermIds :
          perms[r].st = "returned" =>
            perms'[r] = perms[r] /\ ~ResolvePermissionResult(r)']_vars

\* C8 witness: one approval was denied by its timer while another is still
\* pending one ms before its own deadline.
C8_Witness ==
  /\ \E r \in SettledBy("timer") :
       IsDecision(perms[r].resolves[1], "deny", "Permission timed out", "timer")
  /\ \E r \in DOMAIN pendingPerms : timers[r].elapsed = PERM_TIMEOUT_MS - 1

\* C9: the shutdown drain aborts the controller of every active task and
\* settles every registered approval with deny 'Shutting down'; after it
\* activeQueries and pendingPerms are empty.
C9_ShutdownDrain ==
  /\ [](halted => (\A c \in Chats : activeQueries[c] = 0) /\ pendingPerms = EmptyMap)
  /\ [][(~halted /\ halted') =>
          /\ \A c \in Chats : activeQueries[c] # 0 => activeQueries[c] \in acAborted'
          /\ \A r \in DOMAIN pendingPerms :
               /\ Len(perms'[pendingPerms[r].resolve].resolves) = 1
               /\ IsDecision(perms'[pendingPerms[r].resolve].resolves[1],
                             "deny", "Shutting down", "drain")]_vars

\* C9 witness: the process has shut down with the tasks of two conversations
\* aborted in mid-run and an approval denied by the drain.
C9_Witness ==
  /\ halted
  /\ SettledBy("drain") # {}
  /\ \E t1, t2 \in acAborted :
       /\ t1 # t2
       /\ tasks[t1].pc \in NonTerminal /\ tasks[t2].pc \in NonTerminal

\* ------------------------------------------------------------ reply texts
\* What the documentation promises for each reply text of ReplyTexts.
YesTexts ==
  { <<"y","e","s">>, <<"Y","E","S">>, <<" ","y"," ">>, <<"y">>,
    <<"a","p","p","r","o","v","e">>, <<"A","p","p","r","o","v","e","\n">> }
TrustTexts ==
  { <<"a","l","w","a","y","s">>, <<"A","l","w","a","y","s">>, <<"a">>, <<"\t","A">> }

Replied == {r \in PermIds : perms[r].reply # NoReply}

ChatOf(r) == tasks[perms[r].task].chatId

\* The kinds an 'always' reply has trusted in conversation c.
TrustedKindsIn(c) ==
  {perms[r].toolName : r \in {x \in Replied : perms[x].reply \in TrustTexts /\ ChatOf(x) = c}}

\* Approval request r is raised in this step.
Raised(r) == perms[r].st = "unused" /\ perms'[r].st # "unused"

ShortCircuited(r) ==
  /\ perms[r].st = "returned"
  /\ perms[r].resolves = <<[behavior |-> "allow", message |-> "",
                            updatedPermissions |-> FALSE, by |-> "trust"]>>

\* C5: an approval request for a kind that no 'always' reply has trusted in
\* the request's own conversation sends a prompt.
C5_TrustPerConversation ==
  [][\A r \in PermIds :
       (Raised(r) /\ perms'[r].toolName \notin TrustedKindsIn(ChatOf(r)'))
         => perms'[r].st = "sending"]_vars

\* C6: after /new in a conversation, an approval request of that conversation
\* for a kind that was trusted in it before the reset sends a prompt.
C6_ResetClearsTrust ==
  [][\A r \in PermIds :
       (/\ Raised(r)
        /\ perms'[r].toolName \in TrustedKindsIn(ChatOf(r)')
        /\ perms'[r].toolName \notin trustCache[ChatOf(r)'])
         => perms'[r].st = "sending"]_vars

\* C7: an approval request for an always-allowed kind returns allow at once:
\* no prompt is sent, pendingPerms and the timers are left as they are; and a
\* kind that an 'always' reply has trusted in the request's conversation is
\* always-allowed.
C7_TrustedShortCircuits ==
  [][\A r \in PermIds :
       (/\ Raised(r)
        /\ \/ perms'[r].toolName \in alwaysAllowed
           \/ perms'[r].toolName \in TrustedKindsIn(ChatOf(r)'))
         => /\ ShortCircuited(r)'
            /\ pendingPerms' = pendingPerms
            /\ timers' = timers]_vars

\* C7 witness: after an 'always' reply to one approval, a later request of the
\* same conversation for the same kind was allowed without a prompt.
C7_Witness ==
  \E r1, r2 \in PermIds :
    /\ perms[r1].reply \in TrustTexts
    /\ ShortCircuited(r2)
    /\ perms[r2].toolName = perms[r1].toolName
    /\ ChatOf(r2) = ChatOf(r1)

\* ------------------------------------------------------- slots and attempts
\* Task t runs its finally block in this step.
RunsFinally(t) == tasks[t].pc \in NonTerminal /\ tasks'[t].pc = "done"

\* C11: while the process runs, every task between its registration and its
\* finally block is the holder of its conversation's slot; the slot a task's
\* finally block deletes is the one the task registered, never that of a later
\* attempt, and the slots of the other conversations are left as they are.
C11_ReleaseOwnSlot ==
  /\ [](~halted => \A t \in TaskIds :
            tasks[t].pc \in NonTerminal => activeQueries[tasks[t].chatId] = t)
  /\ [][\A t \in TaskIds :
          RunsFinally(t) =>
            /\ activeQueries[tasks[t].chatId] = t
            /\ \A c \in Chats \ {tasks[t].chatId} : activeQueries'[c] = activeQueries[c]]_vars

\* C11 witness: an aborted task has run its finally block and a later attempt
\* of the same conversation holds the slot.
C11_Witness ==
  \E t1, t2 \in TaskIds :
    /\ t1 < t2 /\ tasks[t1].chatId = tasks[t2].chatId
    /\ t1 \in acAborted /\ tasks[t1].pc = "done"
    /\ tasks[t2].pc \in NonTerminal /\ activeQueries[tasks[t2].chatId] = t2

\* execute is called in this step and its call is recorded as task t.
Called(t) == tasks[t].pc = "unused" /\ tasks'[t].pc # "unused"

\* C12: whether an execute is accepted depends on its own conversation alone:
\* with no running task in its conversation it is accepted and registered,
\* whatever runs in the other conversations, whose slots it leaves alone; with
\* a running task in its conversation it is rejected.
C12_ConversationsIndependent ==
  [][\A t \in TaskIds :
       Called(t) =>
         LET c == tasks'[t].chatId
         IN  /\ Running(c) = {} =>
                  /\ tasks'[t].pc = "working"
                  /\ activeQueries' = [activeQueries EXCEPT ![c] = t]
             /\ Running(c) # {} =>
                  /\ tasks'[t].pc = "rejecting"
                  /\ activeQueries' = activeQueries]_vars

\* C12 witness: the tasks of two conversations have their engines running at
\* the same time, each holding its own conversation's slot.
C12_Witness ==
  \E t1, t2 \in TaskIds :
    /\ tasks[t1].chatId # tasks[t2].chatId
    /\ tasks[t1].pc = "streaming" /\ tasks[t2].pc = "streaming"
    /\ tasks[t1].started /\ tasks[t2].started
    /\ activeQueries[tasks[t1].chatId] = t1 /\ activeQueries[tasks[t2].chatId] = t2

\* ------------------------------------------------------------ cancellation
\* Task t holds its slot with its controller aborted and its event loop not
\* yet ended.
AbortedInFlight(t) == t \in acAborted /\ tasks[t].pc \in {"working", "streaming"}

StreamEnds(t) == tasks[t].pc = "streaming" /\ tasks'[t].pc \in {"sendResult", "done"}
StreamRaises(t) == tasks[t].pc = "streaming" /\ tasks'[t].pc \in {"sendStopped", "sendError"}
\* The engine is invoked for task t in this step.
Invoked(t) == tasks[t].pc = "working" /\ tasks'[t].pc = "streaming"

\* The engine is invoked with the session stored for the task's own
\* conversation, without a resume value when none is stored.
ResumesOwnSession ==
  \A t \in TaskIds : Invoked(t) => tasks'[t].resume = sessions[tasks[t].chatId]

\* A conversation's stored session changes only when it is deleted, or when a
\* task of that conversation stores the session id its engine reported last.
StoredByOwnTask ==
  \A c \in Chats :
    sessions'[c] # sessions[c] =>
      \/ sessions'[c] = None
      \/ \E t \in TaskIds : /\ tasks[t].chatId = c /\ StreamEnds(t)
                             /\ tasks[t].sessionId = sessions'[c]

\* C17 as stated: whenever a task leaves its event loop, by the end of the
\* stream or by an exception, with a session id reported by the engine, that
\* id is the one stored for its conversation; the next task resumes it.
C17_TokenStoredAtEveryEnd ==
  [][/\ \A t \in TaskIds :
          (StreamEnds(t) \/ StreamRaises(t)) /\ tasks[t].sessionId # None
            => sessions'[tasks[t].chatId] = tasks[t].sessionId
     /\ ResumesOwnSession
     /\ StoredByOwnTask]_vars

\* C17 amended: a task whose event stream ends without an exception stores the
\* session id the engine reported last for its own conversation and leaves the
\* other conversations' sessions alone; a task whose stream raises stores
\* nothing; the engine is invoked with the session stored for the task's own
\* conversation, and with none when none is stored.
C17_SessionContinuation ==
  [][/\ \A t \in TaskIds :
          StreamEnds(t) =>
            sessions' = IF tasks[t].sessionId # None
                          THEN [sessions EXCEPT ![tasks[t].chatId] = tasks[t].sessionId]
                          ELSE sessions
     /\ \A t \in TaskIds : StreamRaises(t) => sessions' = sessions
     /\ ResumesOwnSession
     /\ StoredByOwnTask]_vars

\* C17 witness: the second task of a conversation runs with the session id
\* the first one stored as its resume value, the other conversation having no
\* session.
C17_Witness ==
  \E t1, t2 \in TaskIds :
    /\ t1 < t2 /\ tasks[t1].chatId = tasks[t2].chatId
    /\ tasks[t1].pc = "done" /\ tasks[t1].sessionId # None
    /\ tasks[t2].pc = "streaming" /\ tasks[t2].resume = tasks[t1].sessionId
    /\ \A c \in Chats \ {tasks[t1].chatId} : sessions[c] = None

\* C18: the first engine invocation of a conversation after its /new is made
\* without a resume value.
C18_ResetStartsFresh ==
  [][\A t \in TaskIds :
       (Invoked(t) /\ resetSince[tasks[t].chatId]) => tasks'[t].resume = None]_vars

\* ---------------------------------------------------------------- rejection
\* A step of a rejected execute: the call up to its send, or the settling of
\* the 'already running' send.
RejectStep(t) ==
  \/ Called(t) /\ tasks'[t].pc = "rejecting"
  \/ tasks[t].pc = "rejecting" /\ tasks'[t].pc = "rejected"

\* C13: the steps of a rejected execute leave activeQueries, the controllers'
\* signals, pendingPerms, the timers, sessions, alwaysAllowed, the approvals
\* and every other task as they are; the call ends with the 'already running'
\* message delivered, or with the failure of that send.
C13_RejectChangesNothing ==
  /\ [][\A t \in TaskIds :
          RejectStep(t) =>
            /\ activeQueries' = activeQueries /\ acAborted' = acAborted
            /\ pendingPerms' = pendingPerms /\ timers' = timers
            /\ sessions' = sessions /\ alwaysAllowed' = alwaysAllowed
            /\ perms' = perms
            /\ \A u \in TaskIds \ {t} : tasks'[u] = tasks[u]]_vars
  /\ [](\A t \in TaskIds :
          tasks[t].pc = "rejected" => tasks[t].outcome \in {"alreadyRunning", "sendFailed"})

\* C13 witness: an execute was rejected while the running task of its
\* conversation, already aborted, holds the slot, a session is stored, an
\* approval is pending and a tool is trusted.
C13_Witness ==
  \E t1, t2 \in TaskIds :
    /\ tasks[t2].pc = "rejected" /\ tasks[t2].outcome = "alreadyRunning"
    /\ activeQueries[tasks[t2].chatId] = t1 /\ t1 \in acAborted
    /\ sessions[tasks[t2].chatId] # None
    /\ pendingPerms # EmptyMap /\ alwaysAllowed # {}

\* ------------------------------------------------------------ failed prompts
\* C14: an approval whose prompt is being sent, or could not be sent, has no
\* entry in pendingPerms and no timer; the failure of the send leaves
\* pendingPerms and the timers as they are, delivers no decision and rejects
\* the call for good.
C14_NoEntryWithoutPrompt ==
  /\ [](\A r \in PermIds :
          perms[r].st \in {"sending", "threw"} =>
            /\ r \notin DOMAIN pendingPerms /\ r \notin DOMAIN timers
            /\ perms[r].resolves = <<>>)
  /\ [][\A r \in PermIds :
          (perms[r].st = "sending" /\ perms'[r].st = "threw")
            => pendingPerms' = pendingPerms /\ timers' = timers]_vars
  /\ [][\A r \in PermIds : perms[r].st = "threw" => perms'[r] = perms[r]]_vars

\* C14 witness: the prompt of one approval could not be sent while another
\* approval is registered with its timer running.
C14_Witness ==
  \E r1, r2 \in PermIds :
    /\ perms[r1].st = "threw" /\ r1 \notin DOMAIN pendingPerms
    /\ r2 \in DOMAIN pendingPerms /\ r2 \in DOMAIN timers
    /\ DOMAIN pendingPerms = {r2} /\ DOMAIN timers = {r2}

\* ------------------------------------------------------ abort and approvals
\* The approvals registered for a task whose controller is aborted.
PendingOfAborted == {r \in DOMAIN pendingPerms : perms[r].task \in acAborted}

\* C16: a step that aborts a controller while the process runs leaves
\* pendingPerms, the timers, alwaysAllowed and every approval as they are; an
\* approval registered for an aborted task is still waiting with its timer,
\* and it is settled only by a reply, by its timer or by the shutdown drain,
\* exactly once, its entry and its timer being removed in that step.
C16_AbortLeavesApprovals ==
  /\ [][(acAborted' # acAborted /\ ~halted') =>
          /\ pendingPerms' = pendingPerms /\ timers' = timers
          /\ alwaysAllowed' = alwaysAllowed /\ perms' = perms]_vars
  /\ [](\A r \in PendingOfAborted :
          perms[r].st = "waiting" /\ perms[r].resolves = <<>> /\ r \in DOMAIN timers)
  /\ [][\A r \in PendingOfAborted :
          perms'[r] # perms[r] =>
            /\ perms'[r].st = "returned" /\ Len(perms'[r].resolves) = 1
            /\ perms'[r].resolves[1].by \in {"reply", "timer", "drain"}
            /\ r \notin DOMAIN pendingPerms' /\ r \notin DOMAIN timers']_vars

\* C16 witness: the task of two approvals was aborted and has ended; one of
\* them was then settled by its reply and the other is still registered with
\* its timer running.
C16_Witness ==
  \E r1, r2 \in PermIds :
    /\ perms[r1].task \in acAborted /\ perms[r2].task \in acAborted
    /\ tasks[perms[r1].task].outcome = "stopped" /\ tasks[perms[r2].task].outcome = "stopped"
    /\ r1 \in SettledBy("reply")
    /\ r2 \in PendingOfAborted /\ timers[r2].elapsed > 0
    /\ ~halted

\* ------------------------------------------------------------ stale replies
\* C19: resolvePermission returns true exactly for the handles of the
\* approvals that are registered and not yet settled; a reply that quotes any
\* other message id is routed on with the approvals, pendingPerms, the timers
\* and alwaysAllowed as they were; a reply text is delivered only to an
\* approval that is waiting, and a tool is trusted only in such a step.
C19_UnknownHandleNoEffect ==
  /\ [](\A h \in StanzaIds :
          ResolvePermissionResult(h) <=> (h \in PermIds /\ perms[h].st = "waiting"))
  /\ [][\A t \in TaskIds :
          (Called(t) /\ tasks'[t].quoted # 0) =>
            /\ ~ResolvePermissionResult(tasks'[t].quoted)
            /\ perms' = perms /\ pendingPerms' = pendingPerms
            /\ timers' = timers /\ alwaysAllowed' = alwaysAllowed]_vars
  /\ [][\A r \in PermIds :
          perms'[r].reply # perms[r].reply
            => perms[r].st = "waiting" /\ perms[r].reply = NoReply]_vars
  /\ [][alwaysAllowed' # alwaysAllowed =>
          \E r \in PermIds :
            /\ perms[r].st = "waiting" /\ perms'[r].reply \in TrustTexts
            /\ alwaysAllowed' = alwaysAllowed \cup {perms[r].toolName}]_vars

\* C19 witness: an "Always" message that quotes the prompt of an approval
\* already denied by its timer, raised by a task that has ended, was routed on
\* to execute; the approval has one decision, no reply, and its tool is not
\* trusted.
C19_Witness ==
  \E t \in TaskIds :
    /\ tasks[t].quoted \in SettledBy("timer")
    /\ tasks[t].pc = "working" /\ tasks[perms[tasks[t].quoted].task].pc = "done"
    /\ Len(perms[tasks[t].quoted].resolves) = 1
    /\ perms[tasks[t].quoted].reply = NoReply
    /\ alwaysAllowed = {}

\* ------------------------------------------------------ concurrent approvals
\* A reply is delivered to approval h in this step.
RepliedTo(h) == perms'[h].reply # perms[h].reply

\* C20: registering an approval adds its entry and its timer next to those
\* already there, however many are pending; a reply delivered to h settles h
\* with one decision and removes the entry and the timer of h alone: every
\* other approval, its entry and its timer are as before, and alwaysAllowed
\* gains the tool name of h when the reply is an 'always' and nothing
\* otherwise.
C20_ReplyTouchesOnlyItsApproval ==
  /\ [][\A r \in PermIds :
          (perms[r].st = "sending" /\ perms'[r].st = "waiting") =>
            /\ pendingPerms' = MapSet(pendingPerms, r, pendingPerms'[r])
            /\ pendingPerms'[r].toolName = perms[r].toolName
            /\ timers' = MapSet(timers, r, timers'[r])]_vars
  /\ [][\A h \in PermIds :
          RepliedTo(h) =>
            /\ Len(perms'[h].resolves) = 1 /\ perms'[h].resolves[1].by = "reply"
            /\ \A r \in PermIds \ {h} : perms'[r] = perms[r]
            /\ pendingPerms' = MapDelete(pendingPerms, h)
            /\ timers' = MapDelete(timers, h)
            /\ alwaysAllowed' = IF perms'[h].reply \in TrustTexts
                                  THEN alwaysAllowed \cup {perms[h].toolName}
                                  ELSE alwaysAllowed]_vars

\* C20 witness: two approvals of one conversation, for different tools, were
\* pending together; an 'always' reply has settled one and trusted its tool
\* while the other is still pending with its timer, its tool not trusted.
C20_Witness ==
  \E h, r \in PermIds :
    /\ perms[h].reply \in TrustTexts /\ h \in SettledBy("reply")
    /\ r \in DOMAIN pendingPerms /\ r \in DOMAIN timers /\ perms[r].st = "waiting"
    /\ ChatOf(h) = ChatOf(r) /\ perms[h].toolName # perms[r].toolName
    /\ pendingPerms[r].toolName = perms[r].toolName
    /\ alwaysAllowed = {perms[h].toolName}

\* ------------------------------------------------------- terminal messages
\* C21: a task whose event stream ends after a result message hands a
\* terminal message to the channel; the message delivered is the plain result
\* only for a success and the error-prefixed one only for a failure.
C21_TerminalMessageMatches ==
  /\ [][\A t \in TaskIds :
          (StreamEnds(t) /\ tasks[t].gotResult) => tasks'[t].pc = "sendResult"]_vars
  /\ [](\A t \in TaskIds :
          /\ tasks[t].outcome = "result" => tasks[t].gotResult /\ ~tasks[t].isError
          /\ tasks[t].outcome = "errorResult" => tasks[t].gotResult /\ tasks[t].isError)

\* The message is one the router is to ignore: written by the owner outside the
\* self-chat, or by another sender who is not in a non-empty ALLOWED_USERS.
Unauthorized(m) ==
  \/ m.fromMe /\ m.jid # userJid
  \/ ~m.fromMe /\ ALLOWED_USERS # {} /\ m.jid \notin ALLOWED_USERS

\* C22: a message from an unauthorized sender has no effect: handleMessage
\* returns with no approval resolved, no task started or aborted, no session
\* reset, nothing trusted and no reply sent.
C22_UnauthorizedNoEffect ==
  [][(lastMessage' # lastMessage /\ Unauthorized(lastMessage'))
       => UNCHANGED claude /\ lastMessage'.reply = NoSend]_vars

\* C22 witness: with ALLOWED_USERS set, a sender outside it quoted the prompt
\* of a waiting approval with "Always"; the approval still waits and nothing
\* is trusted.
C22_Witness ==
  /\ lastMessage # NoMessage
  /\ ALLOWED_USERS # {}
  /\ ~lastMessage.fromMe
  /\ lastMessage.jid \notin ALLOWED_USERS
  /\ lastMessage.text = <<"A","l","w","a","y","s">>
  /\ lastMessage.quoted \in DOMAIN pendingPerms
  /\ perms[lastMessage.quoted].st = "waiting"
  /\ alwaysAllowed = {}

\* A /status command of an authorized sender is answered in this step.
StatusAnswered ==
  lastMessage' # lastMessage /\ lastMessage'.reply.text = "CodeClaw Status"

\* C23: the status query is a read-only snapshot: the active count it reports
\* is the number of conversations that hold a task slot, which are those with
\* a task under way; the pending count is the number of approvals registered
\* and not yet settled; the query changes nothing in the handler.
C23_StatusSnapshot ==
  [][StatusAnswered =>
       /\ lastMessage'.reply.activeQueries
            = Cardinality({c \in Chats : activeQueries[c] # 0})
       /\ lastMessage'.reply.activeQueries
            = Cardinality({c \in Chats : Running(c) # {}})
       /\ lastMessage'.reply.pendingPermissions
            = Cardinality({r \in PermIds : perms[r].st = "waiting"})
       /\ UNCHANGED claude]_vars

\* C23 witness: a status reply that reports two active tasks and one pending
\* approval, while a second approval request has its prompt on the way.
C23_Witness ==
  /\ lastMessage.reply.text = "CodeClaw Status"
  /\ lastMessage.reply.activeQueries = 2
  /\ lastMessage.reply.pendingPermissions = 1
  /\ \E r \in PermIds : perms[r].st = "sending"

\* Path p is directory root or lies inside it.
Inside(root, p) ==
  p = root \/ startsWith(p, IF root = <<"/">> THEN root ELSE Append(root, "/"))

\* C24: the file browser hands readdir and readFile only the root or a path
\* inside the root, and otherwise returns the refusal without asking the file
\* system.
C24_StaysInsideRoot ==
  browser.last.op # None =>
    IF browser.last.fs # NoPath
      THEN Inside(browser.last.root, browser.last.fs)
      ELSE browser.last.text \in {"Cannot navigate outside the project directory.",
                                   "Cannot access files outside the project directory."}

\* The approval calls whose promise was handed a decision.
Delivered == {r \in PermIds : perms[r].resolves # <<>>}

\* C25 as stated: on every path the entry is removed from pendingPerms before
\* the decision is handed to the promise.
C25_RemovedBeforeDelivery ==
  \A r \in Delivered : ~perms[r].registered

\* C25: a reply and a timeout remove the entry before they hand the decision
\* to the promise; the shutdown drain hands every pending promise its denial
\* and clears the map at the end of the same call; once a handler has
\* returned, no approval with a decision has an entry in pendingPerms.
C25_NoEntryOnceDelivered ==
  \A r \in Delivered :
    /\ perms[r].registered <=> perms[r].resolves[1].by = "drain"
    /\ \A h \in DOMAIN pendingPerms : pendingPerms[h].resolve # r

\* C25 witness: one approval was settled by a reply and one by the shutdown
\* drain; only the second had its entry when its promise got the decision.
C25_Witness ==
  \E r1, r2 \in Delivered :
    /\ perms[r1].resolves[1].by = "reply" /\ ~perms[r1].registered
    /\ perms[r2].resolves[1].by = "drain" /\ perms[r2].registered
    /\ pendingPerms = EmptyMap

\* The approval calls the engine got allow for on a reply that reads "always".
AllowedByAlways ==
  {r \in Delivered : /\ perms[r].resolves[1].by = "reply"
                     /\ perms[r].resolves[1].behavior = "allow"
                     /\ ReplyClass(perms[r].reply) = "always"}

\* C26: whenever the engine has got allow for an approval that was answered
\* with "always", the approval's tool is in alwaysAllowed: the tool is trusted
\* in the step that hands the promise the decision, and stays trusted.
C26_TrustedBeforeAllow ==
  /\ [](\A r \in AllowedByAlways : perms[r].toolName \in alwaysAllowed)
  /\ [][\A r \in PermIds :
          (RepliedTo(r) /\ ReplyClass(perms'[r].reply) = "always")
            => /\ perms'[r].resolves[1].behavior = "allow"
               /\ perms[r].toolName \in alwaysAllowed']_vars

\* C26 witness: an approval answered "Always" whose task has gone on with the
\* allow and has asked for the same tool again, which was granted on trust.
C26_Witness ==
  \E r \in AllowedByAlways : \E q \in Delivered :
    /\ q # r
    /\ perms[q].toolName = perms[r].toolName
    /\ perms[q].resolves[1].by = "trust"

\* The live timers set for handle h.
TimersOf(h) == {id \in DOMAIN timers : timers[id].msgId = h}

\* C27: every entry of pendingPerms has exactly one live timer, its own, and
\* every live timer belongs to an entry; a reply cancels the timer of the entry
\* it settles and the shutdown drain cancels every timer; a timeout callback
\* runs only for an approval that is registered and has no decision yet.
C27_TimersMatchEntries ==
  /\ [](\A h \in DOMAIN pendingPerms :
          /\ TimersOf(h) = {pendingPerms[h].timer}
          /\ timers[pendingPerms[h].timer].resolve = pendingPerms[h].resolve)
  /\ [](\A id \in DOMAIN timers : timers[id].msgId \in DOMAIN pendingPerms)
  /\ [][\A h \in DOMAIN pendingPerms :
          RepliedTo(pendingPerms[h].resolve) => TimersOf(h)' = {}]_vars
  /\ [][halted' # halted => timers' = EmptyMap]_vars
  /\ [][\A r \in PermIds :
          (perms'[r].resolves # perms[r].resolves
             /\ perms'[r].resolves[Len(perms'[r].resolves)].by = "timer")
            => /\ perms[r].resolves = <<>>
               /\ \E h \in DOMAIN pendingPerms : pendingPerms[h].resolve = r]_vars

\* C27 witness: one approval was settled by a reply and has no timer left,
\* while a second is registered and its own timer has run for some time.
C27_Witness ==
  \E r \in SettledBy("reply") : \E h \in DOMAIN pendingPerms :
    /\ pendingPerms[h].resolve # r
    /\ TimersOf(h) = {pendingPerms[h].timer}
    /\ timers[pendingPerms[h].timer].elapsed > 0
    /\ \A id \in DOMAIN timers : timers[id].resolve # r

\* An /abort command of an authorized sender is answered in this step.
AbortAnswered ==
  /\ lastMessage' # lastMessage
  /\ lastMessage'.reply.text \in {"Aborting current task...", "No active task to abort."}

\* The tasks whose controller was signalled and that have not reached their end.
AbortedUnderWay == {t \in acAborted : tasks[t].pc \in NonTerminal}

\* C28: abort returns true exactly when the conversation holds a slot and
\* then signals that slot's controller; without a slot it returns false and
\* changes nothing; it never frees the slot: an aborted task holds its
\* conversation's slot until it ends, and an execute called meanwhile for that
\* conversation is rejected.
C28_AbortSignalsKeepsSlot ==
  /\ [][AbortAnswered =>
          /\ (lastMessage'.reply.text = "Aborting current task...")
                <=> activeQueries[lastMessage'.jid] # 0
          /\ acAborted' = IF activeQueries[lastMessage'.jid] # 0
                            THEN acAborted \cup {activeQueries[lastMessage'.jid]}
                            ELSE acAborted
          /\ UNCHANGED <<activeQueries, pendingPerms, timers, alwaysAllowed,
                         sessions, tasks, perms>>]_vars
  /\ [](\A t \in AbortedUnderWay : activeQueries[tasks[t].chatId] = t)
  /\ [][\A t \in TaskIds :
          (Called(t) /\ \E u \in AbortedUnderWay : tasks[u].chatId = tasks'[t].chatId)
            => tasks'[t].pc = "rejecting" /\ activeQueries' = activeQueries]_vars

\* C28 witness: /abort was answered with 'Aborting current task...' while the
\* task it signalled still streams, and an execute called for the same
\* conversation before that was turned away.
C28_Witness ==
  /\ lastMessage.reply.text = "Aborting current task..."
  /\ \E t \in AbortedUnderWay : \E u \in TaskIds :
       /\ tasks[t].chatId = lastMessage.jid /\ tasks[t].pc = "streaming"
       /\ tasks[u].chatId = lastMessage.jid /\ tasks[u].pc = "rejected"

\* The call t of execute takes a step.
ExecuteStep(t) == tasks'[t] # tasks[t]

\* C29: a step of an execute for one conversation, whatever its outcome,
\* leaves the slot and the session token of every other conversation, the
\* signal of every controller and every other call of execute as they are.
C29_FailuresContained ==
  [][\A t \in TaskIds :
       ExecuteStep(t) =>
         /\ \A c \in Chats \ {tasks'[t].chatId} :
              activeQueries'[c] = activeQueries[c] /\ sessions'[c] = sessions[c]
         /\ acAborted' = acAborted
         /\ \A u \in TaskIds \ {t} : tasks'[u] = tasks[u]]_vars

\* C29 witness: the task of one conversation has ended on an exception, its
\* slot released and no token stored, while the task of the other
\* conversation holds its slot with the engine running.
C29_Witness ==
  \E t, u \in TaskIds :
    /\ tasks[t].chatId = "c1" /\ tasks[t].pc = "done" /\ tasks[t].outcome = "error"
    /\ tasks[u].chatId = "c2" /\ tasks[u].pc = "streaming"
    /\ activeQueries = [c \in Chats |-> IF c = "c2" THEN u ELSE 0]
    /\ sessions["c1"] = None
    /\ tasks[t].sessionId # None

\* An authorized message that quotes another is handled in this step.
QuotedHandled ==
  /\ lastMessage' # lastMessage
  /\ lastMessage'.quoted # 0
  /\ Admitted(lastMessage'.jid, lastMessage'.fromMe)

\* The step handles message m as the router handles an unquoted message.
RoutedOn(m) ==
  LET cmd == cmdLower(trim(m.text))
  IN  /\ perms' = perms /\ pendingPerms' = pendingPerms /\ timers' = timers
      /\ alwaysAllowed' = alwaysAllowed
      /\ CASE cmd = StatusText -> m.reply.text = "CodeClaw Status" /\ UNCHANGED claude
            [] cmd = NewText -> m.reply.text = "Session cleared." /\ ClearSession(m.jid)
            [] cmd = AbortText -> m.reply.text # None /\ Abort(m.jid)
            [] OTHER -> m.reply = NoSend /\ ExecuteCall(m.jid, m.quoted)

\* C30: a message that quotes the prompt of a pending approval is consumed
\* by resolvePermission: its text is that approval's reply, no execute is
\* called, no task aborted, no session reset, the file browser is not asked
\* and the router sends nothing; a message that quotes anything else is routed
\* on as an unquoted message with its text is, with the approvals as they were.
C30_QuotedReplyRouting ==
  [][QuotedHandled =>
       IF lastMessage'.quoted \in DOMAIN pendingPerms
         THEN /\ perms'[pendingPerms[lastMessage'.quoted].resolve].reply = lastMessage'.text
              /\ lastMessage'.quoted \notin DOMAIN pendingPerms'
              /\ lastMessage'.reply = NoSend
              /\ UNCHANGED <<tasks, activeQueries, acAborted, sessions, resetSince, browser>>
         ELSE RoutedOn(lastMessage')]_vars

\* C30 witness: a message that reads /new and quotes a pending prompt was
\* taken as that approval's reply, a denial, and reset nothing; a later
\* "Always" that quotes the same prompt went on to execute.
C30_Witness ==
  \E r \in SettledBy("reply") : \E t \in TaskIds :
    /\ perms[r].reply = NewText
    /\ perms[r].resolves[1].behavior = "deny"
    /\ tasks[t].quoted # 0 /\ tasks[t].pc # "unused"
    /\ lastMessage.quoted = tasks[t].quoted
    /\ \A c \in Chats : ~resetSince[c]
    /\ alwaysAllowed = {}

\* The place of the first piece x of text, 0 when there is none.
IndexOf(text, x) ==
  IF \E i \in 1..Len(text) : text[i] = x
    THEN CHOOSE i \in 1..Len(text) : text[i] = x /\ \A j \in 1..(i - 1) : text[j] # x
    ELSE 0

\* The detail of a tool call as the prompt is to show it: the label and the
\* field of the tool, or the dump of the input cut to 200 characters.
DetailOf(toolName, input) ==
  CASE toolName \in {"Edit", "Write", "Read"} /\ input.file_path # None -> <<"File: ", input.file_path>>
    [] toolName = "Bash" /\ input.command # None -> <<"Command: ", input.command>>
    [] toolName \in {"Glob", "Grep"} /\ input.pattern # None -> <<"Pattern: ", input.pattern>>
    [] toolName = "WebFetch" /\ input.url # None -> <<"URL: ", input.url>>
    [] toolName = "WebSearch" /\ input.query # None -> <<"Query: ", input.query>>
    [] toolName = "Task" ->
         <<"Input: ">> \o [i \in 1..(IF input.json > 200 THEN 200 ELSE input.json) |-> "x"]
    [] OTHER -> <<>>

\* C31: every prompt has, in this order, the header, the tool name, the
\* detail of the call on the line after it (the tool's own field, or the dump
\* of the input cut to 200 characters), and the instructions yes, always, no.
C31_PromptInOrder ==
  promptText.toolName # None =>
    LET text == promptText.text
        detail == DetailOf(promptText.toolName, promptText.input)
        tool == IndexOf(text, "Tool: ")
        yes == IndexOf(text, "  yes - approve once")
        always == IndexOf(text, "  always - always approve this tool")
        no == IndexOf(text, "  no - deny")
    IN  /\ text[1] = "Permission needed"
        /\ 1 < tool /\ text[tool + 1] = promptText.toolName /\ text[tool + 2] = "\n"
        /\ SubSeq(text, tool + 3, tool + 2 + Len(detail)) = detail
        /\ text[tool + 3 + Len(detail)] = "\n" \/ detail = <<>>
        /\ tool + 2 + Len(detail) < yes /\ yes < always /\ always < no
        /\ no = Len(text)

\* C31 witness: the prompt for a tool without a rendering of its own, whose
\* input has a JSON text longer than the limit, with a decision reason.
C31_Witness ==
  /\ promptText.toolName = "Task"
  /\ promptText.input.json > DumpLimit
  /\ promptText.decisionReason # None
  /\ Len(promptText.text) > DumpLimit
  /\ \E r \in PermIds : perms[r].st = "waiting" /\ perms[r].toolName = "Task"

\* -------------------------------------------------------------- reconnection
\* A close that schedules a reconnect.
Scheduled == whatsapp.connection # "close" /\ whatsapp'.connection = "close"

\* C32: the delay scheduled at the n-th close in a row since the last open
\* (n from 0) is min(1000 * 2^n, 30000) ms, so 1 s, 2 s, 4 s, ... and never
\* more than 30 s, and every open sets the attempt counter to 0.
C32_CappedBackoff ==
  [][/\ Scheduled =>
          /\ whatsapp'.timer = Min(1000 * 2 ^ whatsapp.closes, 30000)
          /\ whatsapp'.timer <= 30000
          /\ whatsapp.closes < 5 => whatsapp'.timer = 1000 * 2 ^ whatsapp.closes
     /\ whatsapp'.connection = "open" => whatsapp'._reconnectAttempts = 0]_vars

\* C32 witness: the sixth close in a row is waiting the capped 30 s, where the
\* uncapped delay would be 32 s.
C32_Witness ==
  /\ whatsapp.connection = "close" /\ whatsapp.closes = 6
  /\ whatsapp.timer = 30000 /\ whatsapp.sock = "_reconnect"

\* ------------------------------------------------------- the bot's own messages
\* C33: a message the bot sent is never handed to the message handler, in
\* either order of the end of its send and the arrival of its upsert event: the
\* event is skipped, and no bot message in the self-chat is routed or starts a
\* task.
C33_OwnMessagesSkipped ==
  /\ \A id \in SentIds : outbox[id].upsert # "delivered"
  /\ lastMessage.text # BotText
  /\ \A t \in TaskIds : tasks[t].pc = "unused"

\* ------------------------------------------------------------------ chunks
\* The characters of a text that are no white space, in their order.
RECURSIVE NonWhite(_)
NonWhite(str) ==
  IF str = <<>> THEN <<>>
  ELSE IF Head(str) \in WhiteSpace THEN NonWhite(Tail(str))
  ELSE <<Head(str)>> \o NonWhite(Tail(str))

\* The texts of the chunks sent, one after the other.
RECURSIVE SentText(_)
SentText(ids) == IF ids = <<>> THEN <<>> ELSE Head(ids).text \o SentText(Tail(ids))

\* The chunks are pieces of the text taken from left to right: each is found
\* in the text after the end of the one before it.
RECURSIVE LeftToRight(_, _)
LeftToRight(str, ids) ==
  ids = <<>> \/
    \E k \in 0..Len(str) :
      /\ startsWith(sliceFrom(str, k), Head(ids).text)
      /\ LeftToRight(sliceFrom(str, k + Len(Head(ids).text)), Tail(ids))

\* C34: sendChunked ends for every text and every positive maxLen; its chunks
\* are sent in the order of the text and none is longer than maxLen; the send
\* function returns the id of its one message, and for a text longer than the
\* limit the id of the last chunk only.
C34_ChunksEndInOrder ==
  /\ (chunker.st = "looping") ~> (chunker.st = "done")
  /\ [](\A i \in 1..Len(chunker.ids) :
          /\ chunker.ids[i].id = i
          /\ Len(chunker.ids[i].text) <= chunker.maxLen
          /\ Len(chunker.ids[i].text) > 0 \/ chunker.text = <<>>)
  /\ [](LeftToRight(chunker.text, chunker.ids))
  /\ [](chunker.st = "done" =>
          /\ NonWhite(SentText(chunker.ids)) = NonWhite(chunker.text)
          /\ chunker.via = "sendFn" /\ chunker.text # <<>> =>
               /\ chunker.returned = chunker.ids[Len(chunker.ids)].id
               /\ chunker.returned = Len(chunker.ids))

\* C34 witness: the send function has sent a text beyond its limit in three
\* chunks, one of them cut at a newline, and returned the id of the third.
C34_Witness ==
  /\ chunker.st = "done" /\ chunker.via = "sendFn"
  /\ Len(chunker.text) > chunker.maxLen
  /\ Len(chunker.ids) = 3 /\ chunker.returned = 3
  /\ \E i \in 1..2 : Len(chunker.ids[i].text) < chunker.maxLen

\* ----------------------------------------------------------- numeric replies
\* An authorized message whose text is a number and which is not consumed as
\* the reply to a pending approval is handled in this step.
NumberHandled ==
  /\ lastMessage' # lastMessage
  /\ Admitted(lastMessage'.jid, lastMessage'.fromMe)
  /\ isNumeric(trim(lastMessage'.text))
  /\ ~(lastMessage'.quoted # 0 /\ lastMessage'.quoted \in DOMAIN pendingPerms)

\* C35: a message that reads a number goes to the file browser only when its
\* conversation has a browse session, and the task engine is then not called;
\* without a session the browser is left alone and the message is routed on,
\* as a prompt to execute. In the browser a number outside 1..(length of the
\* listing) is answered with 'Invalid selection' and the sessions stay as they
\* are; a number inside is not answered so.
C35_NumberRouting ==
  [][NumberHandled =>
       LET m == lastMessage'
           n == parseInt(trim(m.text))
       IN IF m.jid \in browser.sessions
            THEN /\ UNCHANGED claude
                 /\ m.reply # NoSend
                 /\ IF n \in 1..Len(browser.listing[m.jid].items)
                      THEN m.reply.text # "Invalid selection"
                      ELSE /\ m.reply.text = "Invalid selection"
                           /\ browser' = browser
            ELSE /\ browser' = browser
                 /\ m.reply = NoSend
                 /\ ExecuteCall(m.jid, m.quoted)]_vars

\* C35 witness: in a conversation whose listing has two entries the number 3
\* was answered with 'Invalid selection', and the listing is still there; the
\* other conversation, without a session, sent a number to the task engine.
C35_Witness ==
  /\ lastMessage.jid = "c1" /\ lastMessage.text = <<"3">>
  /\ lastMessage.reply.text = "Invalid selection"
  /\ "c1" \in browser.sessions /\ Len(browser.listing["c1"].items) = 2
  /\ "c2" \notin browser.sessions
  /\ \E t \in TaskIds : tasks[t].chatId = "c2" /\ tasks[t].pc # "unused"

\* ------------------------------------------------------------ the trust set
\* An approval is settled in this step by the timer or by the shutdown drain.
SettledUnanswered ==
  \E r \in PermIds :
    /\ perms[r].resolves = <<>> /\ perms'[r].resolves # <<>>
    /\ perms'[r].resolves[1].by \in {"timer", "drain"}

\* C36: alwaysAllowed changes only in a step that delivers a reply reading
\* always or a to a pending approval, which adds that approval's tool; the
\* timeout, the shutdown drain, the other replies, abort, execute and
\* clearSession leave it as it is, and nothing is ever removed from it.
C36_TrustSetGrowsByAlways ==
  /\ [][alwaysAllowed \subseteq alwaysAllowed']_vars
  /\ [][alwaysAllowed' # alwaysAllowed =>
          \E h \in DOMAIN pendingPerms :
            /\ RepliedTo(h) /\ ReplyClass(perms'[h].reply) = "always"
            /\ alwaysAllowed' = alwaysAllowed \cup {pendingPerms[h].toolName}]_vars
  /\ [][(\/ SettledUnanswered
         \/ \E h \in PermIds : RepliedTo(h) /\ ReplyClass(perms'[h].reply) # "always"
         \/ acAborted' # acAborted
         \/ \E t \in TaskIds : Called(t)
         \/ sessions' # sessions \/ resetSince' # resetSince
         \/ halted')
          => alwaysAllowed' = alwaysAllowed]_vars

\* C36 witness: a tool was trusted by an 'always' reply; afterwards /new was
\* issued, the task was aborted and ended, another approval timed out and the
\* process was shut down, and the tool is still the one trusted.
C36_Witness ==
  /\ alwaysAllowed = {"Edit"}
  /\ resetSince["c1"] /\ halted
  /\ \E r \in SettledBy("timer") : perms[r].toolName = "Bash"
  /\ \E t \in acAborted : tasks[t].pc = "done"

\* ------------------------------------------------- approvals and their tasks
\* C37: every entry of pendingPerms was raised by a task that still holds its
\* conversation's slot: once a task has ended, normally or by abort, none of
\* its approvals is pending, and no reply is matched to a prompt of a task that
\* has ended.
C37_NoApprovalOutlivesTask ==
  /\ [](\A r \in DOMAIN pendingPerms :
          /\ tasks[perms[r].task].pc \in NonTerminal
          /\ activeQueries[ChatOf(r)] = perms[r].task)
  /\ [][\A h \in PermIds : RepliedTo(h) => tasks[perms[h].task].pc \in NonTerminal]_vars

\* ------------------------------------------------- tokens of failed tasks
\* The positions of the catch block of execute.
Catching == {"sendStopped", "sendError"}

\* C38: a task whose event stream raises, after an abort or with an engine
\* error, stores nothing: the step that raises and the steps of its catch and
\* finally blocks leave sessions as it is, so that, unless /new was issued
\* meanwhile, the token stored for its conversation is the one the task started
\* with, whatever token the task saw in its stream.
C38_FailedTaskKeepsToken ==
  /\ [][\A t \in TaskIds :
          (StreamRaises(t) \/ (tasks[t].pc \in Catching /\ ExecuteStep(t)))
            => sessions' = sessions]_vars
  /\ [](\A t \in TaskIds :
          (tasks[t].pc \in Catching /\ ~resetSince[tasks[t].chatId])
            => sessions[tasks[t].chatId] = tasks[t].resume)

\* C38 witness: a task that resumed a stored token saw another token in its
\* stream, was aborted and has ended with 'Stopped'; the token stored is still
\* the one it resumed.
C38_Witness ==
  \E t \in acAborted :
    /\ tasks[t].pc = "done" /\ tasks[t].outcome = "stopped"
    /\ tasks[t].resume # None /\ tasks[t].sessionId \notin {None, tasks[t].resume}
    /\ sessions[tasks[t].chatId] = tasks[t].resume
    /\ ~resetSince[tasks[t].chatId]

====
